---- MODULE Spec2Model ----
(***************************************************************************)
(* A model of TQMesh's advancing-front core: the Front (Front.h), the      *)
(* QuadLayer (QuadLayer.h) and the FrontQuadLayering driver                *)
(* (FrontQuadLayering.h).                                                  *)
(*                                                                         *)
(* Numbers.  The C++ code computes with doubles.  The model computes with  *)
(* exact rationals <<n, d>> (d > 0, lowest terms) and restricts the        *)
(* geometry to axis-aligned edges, for which lengths, tangents and normals *)
(* are rational.  Rounding of doubles is not modelled, except in the       *)
(* specification of the loop of create_sub_vertex_coords (SpecRefine),     *)
(* where the sums are rounded to a grid of representable values.           *)
(***************************************************************************)
EXTENDS Integers, Sequences, FiniteSets, TLC

(***************************************************************************)
(* Exact rational arithmetic (stands for the C++ double).                  *)
(***************************************************************************)
IAbs(i) == IF i < 0 THEN -i ELSE i

RECURSIVE Gcd(_, _)
Gcd(a, b) == IF b = 0 THEN a ELSE Gcd(b, a % b)

RNorm(n, d) ==
  LET s == IF d < 0 THEN -1 ELSE 1
      g == Gcd(IAbs(n), IAbs(d))
  IN  IF n = 0 THEN <<0, 1>> ELSE <<(s * n) \div g, (s * d) \div g>>

R(i) == <<i, 1>>
RAdd(a, b) == RNorm(a[1] * b[2] + b[1] * a[2], a[2] * b[2])
RSub(a, b) == RNorm(a[1] * b[2] - b[1] * a[2], a[2] * b[2])
RMul(a, b) == RNorm(a[1] * b[1], a[2] * b[2])
RDiv(a, b) == RNorm(a[1] * b[2], a[2] * b[1])
RLt(a, b) == a[1] * b[2] < b[1] * a[2]
RLe(a, b) == a[1] * b[2] <= b[1] * a[2]
RNeg(a) == <<-a[1], a[2]>>
RAbs(a) == <<IAbs(a[1]), a[2]>>
RMin(a, b) == IF RLt(a, b) THEN a ELSE b
RZero == R(0)
ROne == R(1)
RHalf == <<1, 2>>

(***************************************************************************)
(* Vec2d: a pair of rationals.                                             *)
(***************************************************************************)
V2(x, y) == <<x, y>>
V(x, y) == <<R(x), R(y)>>
VAdd(a, b) == <<RAdd(a[1], b[1]), RAdd(a[2], b[2])>>
VSub(a, b) == <<RSub(a[1], b[1]), RSub(a[2], b[2])>>
VScale(k, a) == <<RMul(k, a[1]), RMul(k, a[2])>>
VNeg(a) == <<RNeg(a[1]), RNeg(a[2])>>
VDot(a, b) == RAdd(RMul(a[1], b[1]), RMul(a[2], b[2]))
VCross(a, b) == RSub(RMul(a[1], b[2]), RMul(a[2], b[1]))
VNormSqr(a) == VDot(a, a)
\* norm() of an axis-aligned vector (the only vectors the model takes norms of)
VNorm(a) == IF a[1][1] = 0 THEN RAbs(a[2]) ELSE RAbs(a[1])
IsAxisAligned(a) == a[1][1] = 0 \/ a[2][1] = 0

\* a sequence given as a function, made a tuple
Tup(f) == f \o <<>>

(***************************************************************************)
(* Bounds of the model.                                                    *)
(***************************************************************************)
\* the outer boundary is a square of side MaxSide - 2 or MaxSide
MaxSide == 4
\* uniform size functions rho = 1 .. MaxRho (plus one graded size function)
MaxRho == 3
\* generate_elements is configured with at most MaxLayers layers
MaxLayers == 2
\* FrontUpdate gives at most MaxRejects unfavourable verdicts in a run
MaxRejects == 1
\* the heights of a modelled layer are multiples of 1/d, d <= MaxDenominator
MaxDenominator == 18

\* SpecRefine: the representable coordinates are the multiples of 1/Grid
Grid == 8
\* SpecRefine: the size of xy_new is counted up to MaxPoints
MaxPoints == 12

Sides == {MaxSide - 2, MaxSide}

NullId == 0
\* what a read through a dangling or past-the-end iterator yields
GarbageId == -1
NoTwin == <<0, 0>>
\* marker of the edges the front update creates inside the domain
InteriorMarker == 0 - 1

VARIABLES
  domain,         \* the inputs: FrontInitializer arrays per boundary + size function
  mesh_vertices,  \* Vertices container: sequence of vertex records, container order
  edges_,         \* EdgeList::edges_ of the Front: sequence of edge records
  base_,          \* Front::base_ (an edge id, NullId or GarbageId)
  area_,          \* EdgeList's cached signed area
  seed_twin,      \* twin pointer of every seed edge (edges of the neighbour mesh)
  next_vid,       \* identity of the next vertex object
  next_eid,       \* identity of the next edge object
  last_op,        \* the Front operation that ran last
  mesh_,          \* Mesh: boundary_edges, interior_edges, triangles, quads
  config,         \* FrontQuadLayering: n_layers_, first_height_, growth_rate_
  xy_start_,      \* FrontQuadLayering::xy_start_
  xy_end_,        \* FrontQuadLayering::xy_end_
  pc,             \* position of the generate_elements call
  height,         \* generate_elements: local height
  i_layer,        \* generate_elements: local i_layer
  success,        \* generate_elements: local success
  quad_layer,     \* generate_quad_layer: local quad_layer (and is_closed)
  i_base,         \* loop index of create_quad_layer_elements / finish_quad_layer
  n_rejected,     \* number of rejections FrontUpdate has issued so far
  skipped,        \* bases of the current layer that were skipped after a commit was tried
  log,            \* the calls generate_elements has made, and its return value
  refining        \* the call of refine_edge / create_sub_vertex_coords in progress

frontVars == <<domain, refining, mesh_vertices, edges_, base_, area_, seed_twin,
               next_vid, next_eid, last_op>>

(***************************************************************************)
(* Inputs: Domain and FrontInitializer.                                    *)
(***************************************************************************)
Seed(a, b, tw, m) ==
  \* a twin seed is the neighbour mesh's edge, which runs the other way
  [v1 |-> IF tw THEN b ELSE a, v2 |-> IF tw THEN a ELSE b, is_twin |-> tw, marker |-> m]

\* ring of seed edges through the corner points pts; twins: set of indices
RingSeeds(pts, twins, m0) ==
  Tup([k \in 1..Len(pts) |->
         Seed(pts[k], pts[(k % Len(pts)) + 1], k \in twins, m0 + k)])

\* exterior boundary, counter-clockwise
OuterPts(w, h) == <<V(0, 0), V(w, 0), V(w, h), V(0, h)>>
\* interior boundary (a hole), clockwise
HolePts(w, h) == <<V(1, 1), V(1, h - 1), V(w - 1, h - 1), V(w - 1, 1)>>

\* a size function is rho_a + rho_b * x, or, in a band lo < x < hi of coarse
\* cells, the size of the band: [lo, hi, size]
NoPeak == <<>>
PeakBand == <<R(1), R(3), R(4 * MaxSide)>>

SizeParams ==
  {<<R(r), RZero, NoPeak>> : r \in 1..MaxRho}
    \cup {<<ROne, RHalf, NoPeak>>, <<ROne, RZero, PeakBand>>}

\* square domains of side s, with a square hole where there is room for one
Domains ==
  { [bdry |-> <<RingSeeds(OuterPts(s, s), tw, 0)>>
                 \o (IF hole /\ s >= 3
                     THEN <<RingSeeds(HolePts(s, s), {}, 10)>> ELSE <<>>),
     rho_a |-> sp[1], rho_b |-> sp[2], peak |-> sp[3]] :
      s \in Sides, tw \in {{}, {2}, {1, 3}}, hole \in BOOLEAN, sp \in SizeParams }

InPeak(xy) ==
  Len(domain.peak) = 3 /\ RLt(domain.peak[1], xy[1]) /\ RLt(xy[1], domain.peak[2])

\* a size function that shrinks towards x = c from the left: (c - x) / 2 for
\* x < c and size from c on, [c, size]; positive everywhere
SinkAt == <<R(MaxSide - 2), R(2)>>

HasSink == Len(domain.peak) = 2

SinkSize(xy) ==
  IF RLt(xy[1], domain.peak[1])
  THEN RMul(RHalf, RSub(domain.peak[1], xy[1]))
  ELSE domain.peak[2]

\* Domain::size_function: a positive scalar field
SizeFunction(xy) ==
  IF InPeak(xy) THEN domain.peak[3]
  ELSE IF HasSink THEN SinkSize(xy)
  ELSE RAdd(domain.rho_a, RMul(domain.rho_b, xy[1]))

(***************************************************************************)
(* Vertices and edges.                                                     *)
(***************************************************************************)
NewVertex(id, xy) ==
  [id |-> id, xy |-> xy, on_front |-> FALSE, on_boundary |-> FALSE, is_fixed |-> FALSE]

NewEdge(id, v1, v2, marker) ==
  [id |-> id, v1 |-> v1, v2 |-> v2, marker |-> marker, twin |-> NoTwin]

IdxOf(seq, id) == CHOOSE k \in 1..Len(seq) : seq[k].id = id
HasId(seq, id) == \E k \in 1..Len(seq) : seq[k].id = id
ById(seq, id) == seq[IdxOf(seq, id)]
Ids(seq) == {seq[k].id : k \in 1..Len(seq)}

VertXY(vs, id) == ById(vs, id).xy

\* Vertices::push_back
VerticesPushBack(vs, v) == Append(vs, v)
\* Vertices::insert(pos, xy): the new vertex is placed before pos
InsertBefore(seq, posId, x) ==
  LET k == IdxOf(seq, posId)
  IN  SubSeq(seq, 1, k - 1) \o <<x>> \o SubSeq(seq, k, Len(seq))
\* EdgeList::remove
RemoveId(seq, id) == SelectSeq(seq, LAMBDA x : x.id # id)

\* Front::mark_objects: called by EdgeList whenever an edge is added
MarkObjects(vs, ids) ==
  Tup([k \in 1..Len(vs) |->
         IF vs[k].id \in ids THEN [vs[k] EXCEPT !.on_front = TRUE] ELSE vs[k]])

EdgeVec(vs, e) == VSub(VertXY(vs, e.v2), VertXY(vs, e.v1))
EdgeLength(vs, e) == VNorm(EdgeVec(vs, e))
EdgeTangent(vs, e) == VScale(RDiv(ROne, EdgeLength(vs, e)), EdgeVec(vs, e))

\* EdgeList::compute_area: 1/2 * sum (x1*y2 - x2*y1) over the edges
RECURSIVE AreaSum(_, _, _)
AreaSum(vs, es, k) ==
  IF k > Len(es) THEN RZero
  ELSE RAdd(VCross(VertXY(vs, es[k].v1), VertXY(vs, es[k].v2)), AreaSum(vs, es, k + 1))

ComputeArea(vs, es) == RMul(RHalf, AreaSum(vs, es, 1))

Reverse(seq) == Tup([k \in 1..Len(seq) |-> seq[Len(seq) + 1 - k]])

RECURSIVE RSum(_, _)
RSum(seq, k) == IF k > Len(seq) THEN RZero ELSE RAdd(seq[k], RSum(seq, k + 1))

(***************************************************************************)
(* Front: refinement.                                                      *)
(* A front state st is [vs, es, nv, ne, area, stw]: the vertex container,  *)
(* the edge list, the identities of the next vertex and edge objects, the  *)
(* cached area and the twin pointers of the seed edges.                    *)
(***************************************************************************)

\* a step of half the local size, without the corrector
SubVertexHalfStep(xy, rho, tang) == VAdd(xy, VScale(RMul(RHalf, rho), tang))

\* predictor and corrector: the next point xy_c after xy
SubVertexCorrector(xy, rho, tang) ==
  VAdd(xy, VScale(RMul(RHalf, RAdd(rho, SizeFunction(VAdd(xy, VScale(rho, tang))))),
                  tang))

\* s = l / e.length() for the point xy_c
ArcParameter(xy_c, xy_a, len) == RDiv(VNorm(VSub(xy_c, xy_a)), len)

\* the loop of create_sub_vertex_coords: [xy_new, s_last]
RECURSIVE SubVertexLoop(_, _, _, _, _, _)
RECURSIVE SubVertexPush(_, _, _, _, _, _, _)
SubVertexPush(xy_c, s, xy_a, tang, len, s_end, xy_new) ==
  IF RLt(s_end, s) THEN [xy_new |-> xy_new, s_last |-> s]
  ELSE SubVertexLoop(xy_c, xy_a, tang, len, s_end, xy_new)

SubVertexLoop(xy, xy_a, tang, len, s_end, acc) ==
  SubVertexPush(SubVertexCorrector(xy, SizeFunction(xy), tang),
                ArcParameter(SubVertexCorrector(xy, SizeFunction(xy), tang), xy_a, len),
                xy_a, tang, len, s_end,
                Append(acc, SubVertexCorrector(xy, SizeFunction(xy), tang)))

\* rho_i: the size function at the interior points, 0 at both ends
SubVertexWeights(xy_new) ==
  Tup([i \in 1..Len(xy_new) |->
         IF i = 1 \/ i = Len(xy_new) THEN RZero ELSE SizeFunction(xy_new[i])])

\* the interior points move by (rho_i / rho_tot) * d_cr
DistributeCropped(xy_new, rho_i, rho_tot, d_cr) ==
  Tup([i \in 1..Len(xy_new) |->
         IF 1 < i /\ i < Len(xy_new)
         THEN VAdd(xy_new[i], VScale(RDiv(rho_i[i], rho_tot), d_cr))
         ELSE xy_new[i]])

\* create_sub_vertex_coords after its loop: the last point becomes xy_b and the
\* cropped distance d_cr is distributed
SubVertexFinish(xy_new, s_last, xy_b, tang, len) ==
  DistributeCropped([xy_new EXCEPT ![Len(xy_new)] = xy_b],
                    SubVertexWeights(xy_new),
                    RSum(SubVertexWeights(xy_new), 1),
                    VScale(RMul(RSub(ROne, s_last), len), tang))

SubVertexAlong(xy_a, xy_b, tang, len, rho_b) ==
  SubVertexFinish(
    SubVertexLoop(xy_a, xy_a, tang, len,
                  RSub(ROne, RDiv(RMul(RHalf, rho_b), len)), <<xy_a>>).xy_new,
    SubVertexLoop(xy_a, xy_a, tang, len,
                  RSub(ROne, RDiv(RMul(RHalf, rho_b), len)), <<xy_a>>).s_last,
    xy_b, tang, len)

\* create_sub_vertex_coords: from v_a to v_b (rho at v_a below rho at v_b), and
\* reversed at the end if that is against the edge's direction
CreateSubVertexCoords(vs, e, dir, rho_1, rho_2) ==
  IF dir
  THEN SubVertexAlong(VertXY(vs, e.v1), VertXY(vs, e.v2),
                      EdgeTangent(vs, e), EdgeLength(vs, e), rho_2)
  ELSE Reverse(SubVertexAlong(VertXY(vs, e.v2), VertXY(vs, e.v1),
                              VNeg(EdgeTangent(vs, e)), EdgeLength(vs, e), rho_1))

\* the new edges added at the end of the list, as add_edge would
InsertEdgesAtEnd(es, posId, news) == es \o news

\* create_sub_vertex_coords: the array as it is when the ASSERT looks at it,
\* before its order is adjusted
SubVertexArray(vs, e, dir, rho_1, rho_2) ==
  IF dir
  THEN SubVertexAlong(VertXY(vs, e.v1), VertXY(vs, e.v2),
                      EdgeTangent(vs, e), EdgeLength(vs, e), rho_2)
  ELSE SubVertexAlong(VertXY(vs, e.v2), VertXY(vs, e.v1),
                      VNeg(EdgeTangent(vs, e)), EdgeLength(vs, e), rho_1)

\* the ASSERT of create_sub_vertex_coords: s > s_prev at every point after the
\* first, s the distance from xy_new[0] and s_prev = 0 at the start
AscendingAssert(xy_new) ==
  \A i \in 2..Len(xy_new) :
    RLt(IF i = 2 THEN RZero ELSE VNorm(VSub(xy_new[i - 1], xy_new[1])),
        VNorm(VSub(xy_new[i], xy_new[1])))

\* the ASSERT holds for the array of edge e
EdgeAssertHolds(vs, e) ==
  AscendingAssert(SubVertexArray(vs, e,
                                 RLt(SizeFunction(VertXY(vs, e.v1)),
                                     SizeFunction(VertXY(vs, e.v2))),
                                 SizeFunction(VertXY(vs, e.v1)),
                                 SizeFunction(VertXY(vs, e.v2))))

\* EdgeList::insert_edge(pos, ...) called for each edge of news in turn: every
\* new edge is placed before pos, so news ends up in order right before pos
InsertEdgesBefore(es, posId, news) ==
  LET k == IdxOf(es, posId)
  IN  SubSeq(es, 1, k - 1) \o news \o SubSeq(es, k, Len(es))

\* Vertices::insert(pos, xy) called for each vertex of news in turn
InsertVerticesBefore(vs, posId, news) ==
  LET k == IdxOf(vs, posId)
  IN  SubSeq(vs, 1, k - 1) \o news \o SubSeq(vs, k, Len(vs))

OnBoundary(vs, ids) ==
  Tup([k \in 1..Len(vs) |->
         IF vs[k].id \in ids THEN [vs[k] EXCEPT !.on_boundary = TRUE] ELSE vs[k]])

\* create_sub_edges: the interior points xy_new[2 .. m-1] become new vertices
\* (inserted before e.v2, is_fixed), and the chain e.v1 -> new vertices -> e.v2
\* becomes m-1 new edges inserted before e with e's marker.  insert_edge marks
\* the vertices of each new edge as on the front (mark_objects); the code then
\* sets on_boundary on both.
CreateSubEdges(st, e, xy_new) ==
  LET m     == Len(xy_new)
      newVs == Tup([i \in 1..(m - 2) |->
                     [NewVertex(st.nv + i - 1, xy_new[i + 1]) EXCEPT !.is_fixed = TRUE]])
      chain == <<e.v1>> \o Tup([i \in 1..(m - 2) |-> st.nv + i - 1]) \o <<e.v2>>
      newEs == Tup([i \in 1..(m - 1) |->
                     NewEdge(st.ne + i - 1, chain[i], chain[i + 1], e.marker)])
      on    == {chain[i] : i \in 1..m}
      vs1   == InsertVerticesBefore(st.vs, e.v2, newVs)
  IN  [st EXCEPT !.vs = OnBoundary(MarkObjects(vs1, on), on),
                 !.es = InsertEdgesBefore(st.es, e.id, newEs),
                 !.nv = st.nv + (m - 2),
                 !.ne = st.ne + (m - 1)]

\* refine_edge that takes an array of two points for a refinement
RefineEdgeFromTwo(st, e, xy_new) ==
  IF Len(xy_new) < 2 THEN [ok |-> FALSE, st |-> st]
  ELSE [ok |-> TRUE, st |-> CreateSubEdges(st, e, xy_new)]

\* refine_edge after create_sub_vertex_coords: [ok, st]
RefineEdgeWith(st, e, xy_new) ==
  IF Len(xy_new) < 3 THEN [ok |-> FALSE, st |-> st]
  ELSE [ok |-> TRUE, st |-> CreateSubEdges(st, e, xy_new)]

\* refine_edge: [ok, st]
RefineEdge(st, e) ==
  RefineEdgeWith(st, e,
    CreateSubVertexCoords(st.vs, e,
                          RLt(SizeFunction(VertXY(st.vs, e.v1)),
                              SizeFunction(VertXY(st.vs, e.v2))),
                          SizeFunction(VertXY(st.vs, e.v1)),
                          SizeFunction(VertXY(st.vs, e.v2))))

\* every edge of the list, twin edges too
AllEdges(es) == es

\* get_edges_to_refine: twin edges are not refined
GetEdgesToRefine(es) == SelectSeq(es, LAMBDA e : e.twin = NoTwin)

\* the refinement loop of refine_front_edges: [st, rem], rem the edges to remove
RECURSIVE RefineLoop(_, _, _, _)
RECURSIVE RefineLoopStep(_, _, _, _, _)
RefineLoopStep(r, st, todo, i_edge, rem) ==
  IF r.ok
  THEN RefineLoop(r.st, todo, i_edge + 1, Append(rem, todo[i_edge].id))
  ELSE RefineLoop(st, todo, i_edge + 1, rem)

RefineLoop(st, todo, i_edge, rem) ==
  IF i_edge > Len(todo) THEN [st |-> st, rem |-> rem]
  ELSE RefineLoopStep(RefineEdge(st, todo[i_edge]), st, todo, i_edge, rem)

\* the end of refine_front_edges: the refined edges are removed from the list
\* and the area is computed again
RemoveRefined(st, rem) ==
  [st EXCEPT !.es = SelectSeq(st.es, LAMBDA e : \A k \in 1..Len(rem) : e.id # rem[k]),
             !.area = ComputeArea(st.vs,
                        SelectSeq(st.es, LAMBDA e : \A k \in 1..Len(rem) : e.id # rem[k]))]

RefineLoopDone(done) == RemoveRefined(done.st, done.rem)

RefineFrontEdges(st) == RefineLoopDone(RefineLoop(st, GetEdgesToRefine(st.es), 1, <<>>))

(***************************************************************************)
(* Front: initialisation.                                                  *)
(***************************************************************************)

\* init_mesh_vertices: one new vertex per seed edge; [st, new_vertices]
InitMeshVertices(seeds, st) ==
  LET n  == Len(seeds)
      nw == Tup([k \in 1..n |->
                  [NewVertex(st.nv + k - 1,
                             IF ~seeds[k].is_twin THEN seeds[k].v1 ELSE seeds[k].v2)
                     EXCEPT !.on_front = TRUE, !.on_boundary = TRUE, !.is_fixed = TRUE]])
  IN  [st |-> [st EXCEPT !.vs = st.vs \o nw, !.nv = st.nv + n],
       new_vertices |-> Tup([k \in 1..n |-> st.nv + k - 1])]

\* index (0-based) of the second vertex of edge i1 (0-based) in init_front_edges
SecondVertexSkip(i1, n_verts) == (i1 + 2) % n_verts

SecondVertexIndex(i1, n_verts) == (i1 + 1) % n_verts

\* init_front_edges: edge i of the boundary runs from new vertex i to new vertex
\* (i+1) mod n and is added at the end of the list (add_edge): [st, new_edges]
InitFrontEdges(seeds, new_vertices, st) ==
  LET n     == Len(seeds)
      newEs == Tup([k \in 1..n |->
                     NewEdge(st.ne + k - 1,
                             new_vertices[k],
                             new_vertices[SecondVertexIndex(k - 1, Len(new_vertices)) + 1],
                             seeds[k].marker)])
      on    == {newEs[k].v1 : k \in 1..n} \cup {newEs[k].v2 : k \in 1..n}
  IN  [st |-> [st EXCEPT !.es = st.es \o newEs,
                         !.vs = MarkObjects(st.vs, on),
                         !.ne = st.ne + n],
       new_edges |-> Tup([k \in 1..n |-> st.ne + k - 1])]

\* mark_twin_edges without the link from the seed edge back to the new edge
MarkTwinEdgesOneWay(i_bdry, seeds, new_edges, st) ==
  LET tw  == {k \in 1..Len(seeds) : seeds[k].is_twin}
      eid == {new_edges[k] : k \in tw}
      kOf(id) == CHOOSE k \in tw : new_edges[k] = id
  IN  [st EXCEPT
         !.es  = Tup([j \in 1..Len(st.es) |->
                        IF st.es[j].id \in eid
                        THEN [st.es[j] EXCEPT !.twin = <<i_bdry, kOf(st.es[j].id)>>]
                        ELSE st.es[j]])]

\* mark_twin_edges for boundary i_bdry
MarkTwinEdges(i_bdry, seeds, new_edges, st) ==
  LET tw  == {k \in 1..Len(seeds) : seeds[k].is_twin}
      eid == {new_edges[k] : k \in tw}
      kOf(id) == CHOOSE k \in tw : new_edges[k] = id
  IN  [st EXCEPT
         !.es  = Tup([j \in 1..Len(st.es) |->
                        IF st.es[j].id \in eid
                        THEN [st.es[j] EXCEPT !.twin = <<i_bdry, kOf(st.es[j].id)>>]
                        ELSE st.es[j]]),
         !.stw = [r \in DOMAIN st.stw |->
                    IF r[1] = i_bdry /\ r[2] \in tw THEN new_edges[r[2]] ELSE st.stw[r]]]

\* one boundary of init_front: mark_twin_edges on what init_front_edges made
InitBoundaryTwins(i_bdry, seeds, fe) ==
  MarkTwinEdges(i_bdry, seeds, fe.new_edges, fe.st)

\* one boundary of init_front: init_front_edges on what init_mesh_vertices made
InitBoundaryEdges(i_bdry, seeds, mv) ==
  InitBoundaryTwins(i_bdry, seeds, InitFrontEdges(seeds, mv.new_vertices, mv.st))

\* the loop over the boundaries in init_front
RECURSIVE InitFrontLoop(_, _, _)
InitFrontLoop(bdry, i_bdry, st) ==
  IF i_bdry > Len(bdry) THEN st
  ELSE InitFrontLoop(bdry, i_bdry + 1,
         InitBoundaryEdges(i_bdry, bdry[i_bdry], InitMeshVertices(bdry[i_bdry], st)))

InitFrontOp(bdry, st) == RefineFrontEdges(InitFrontLoop(bdry, 1, st))

\* the ASSERT of create_sub_vertex_coords holds for every edge that
\* refine_front_edges hands to refine_edge (the ends of these edges do not move)
RefineAssertsHold(st) ==
  \A k \in 1..Len(GetEdgesToRefine(st.es)) :
    EdgeAssertHolds(st.vs, GetEdgesToRefine(st.es)[k])

SeedRefs(bdry) == {<<b, k>> : b \in 1..Len(bdry), k \in 1..4}

FrontState ==
  [vs |-> mesh_vertices, es |-> edges_, nv |-> next_vid, ne |-> next_eid,
   area |-> area_, stw |-> seed_twin]

(***************************************************************************)
(* Front: the base cursor.                                                 *)
(***************************************************************************)

\* set_base_first: the new value of base_
BaseKept(es, b) == b

BaseFirst(es, b) == IF Len(es) < 1 THEN b ELSE es[1].id

BaseNextNoWrap(es, b) ==
  IF Len(es) < 1 THEN b
  ELSE LET iter == IdxOf(es, b) + 1
       IN  IF iter = Len(es) + 1 THEN b ELSE es[iter].id

\* set_base_next when base_ refers to an edge of the list: the new value of base_
BaseNext(es, b) ==
  IF Len(es) < 1 THEN b
  ELSE LET iter == IdxOf(es, b) + 1
       IN  IF iter = Len(es) + 1 THEN es[1].id ELSE es[iter].id

\* the comparison of sort_edges, on the lengths of two edges
EdgeLess(len_a, len_b, ascending) ==
  IF ascending THEN RLt(len_a, len_b) ELSE RLt(len_b, len_a)

\* sort_edges: std::list::sort is a stable sort, so edge j ends up before edge k
\* iff it compares less, or neither compares less and j was before k
SortedEdges(vs, es, ascending) ==
  LET n    == Len(es)
      len  == Tup([k \in 1..n |-> EdgeLength(vs, es[k])])
      Before(j, k) == \/ EdgeLess(len[j], len[k], ascending)
                      \/ ~EdgeLess(len[k], len[j], ascending) /\ j < k
      rank == Tup([k \in 1..n |->
                     Cardinality({j \in 1..n : j # k /\ Before(j, k)}) + 1])
  IN  Tup([p \in 1..n |-> es[CHOOSE k \in 1..n : rank[k] = p]])

\* Edge::get_next_edge: the edge of the same list that starts where e ends and
\* does not lead straight back; NullId if there is none
GetNextEdge(es, e) ==
  LET cand == {k \in 1..Len(es) : es[k].v1 = e.v2 /\ es[k].v2 # e.v1}
  IN  IF cand = {} THEN NullId ELSE es[CHOOSE k \in cand : \A j \in cand : k <= j].id

\* the edges met when following next-edge links from the edge start, up to the
\* return to start, a missing link, or an edge met before
RECURSIVE NextEdgeWalk(_, _, _)
NextEdgeWalk(es, cur, seen) ==
  LET nxt == GetNextEdge(es, ById(es, cur))
  IN  IF nxt = NullId \/ nxt \in {seen[k] : k \in 1..Len(seen)}
      THEN [visited |-> seen, back |-> nxt]
      ELSE NextEdgeWalk(es, nxt, Append(seen, nxt))

NextEdgeRing(es, start) == NextEdgeWalk(es, start, <<start>>)

\* the cursor after k calls of set_base_next
RECURSIVE BaseNextTimes(_, _, _)
BaseNextTimes(es, b, k) ==
  IF k = 0 THEN b ELSE BaseNextTimes(es, BaseNext(es, b), k - 1)

(***************************************************************************)
(* Geometry on the grid.  All modelled edges are parallel to an axis, so    *)
(* lengths, unit vectors and the cosine of an angle are rational.           *)
(***************************************************************************)

\* is_left(a, b, c): c lies strictly to the left of the line from a to b
IsLeft(a, b, c) == RLt(RZero, VCross(VSub(b, a), VSub(c, a)))

\* angle(a, b) <= quad_layer_angle_ (a right angle): the cosine is not negative
AngleLeQuadLayerAngle(a, b) == RLe(RZero, VDot(a, b))

\* cos(angle(a, b))
CosAngle(a, b) == RDiv(VDot(a, b), RMul(VNorm(a), VNorm(b)))

\* Edge::normal: the tangent turned to the left (into the domain)
EdgeNormal(vs, e) == V2(RNeg(EdgeTangent(vs, e)[2]), EdgeTangent(vs, e)[1])

\* Edge::xy: the midpoint
EdgeMid(vs, e) == VScale(RHalf, VAdd(VertXY(vs, e.v1), VertXY(vs, e.v2)))

EdgeAxisAligned(vs, e) == IsAxisAligned(EdgeVec(vs, e)) /\ EdgeVec(vs, e) # V(0, 0)

(***************************************************************************)
(* Front and Mesh operations used by the quad layering.  A world w is       *)
(* [vs, es, nv, ne, mesh]: vertex container, Front edges, next identities,  *)
(* and the Mesh record.                                                     *)
(***************************************************************************)

\* Front::get_edge(v, which): which = 1: the edge that starts at v, which = 2:
\* the edge that ends at v; NullId if there is none
GetEdgeAt(es, v, which) ==
  IF \E k \in 1..Len(es) : (IF which = 1 THEN es[k].v1 ELSE es[k].v2) = v
  THEN es[CHOOSE k \in 1..Len(es) :
            /\ (IF which = 1 THEN es[k].v1 ELSE es[k].v2) = v
            /\ \A j \in 1..(k - 1) : (IF which = 1 THEN es[j].v1 ELSE es[j].v2) # v].id
  ELSE NullId

\* EdgeList::get_edge(v1, v2): the edge from v1 to v2; NullId if there is none
GetEdge(es, v1, v2) ==
  IF \E k \in 1..Len(es) : es[k].v1 = v1 /\ es[k].v2 = v2
  THEN es[CHOOSE k \in 1..Len(es) :
            /\ es[k].v1 = v1 /\ es[k].v2 = v2
            /\ \A j \in 1..(k - 1) : ~(es[j].v1 = v1 /\ es[j].v2 = v2)].id
  ELSE NullId

\* Edge::get_prev_edge: the edge of the same list that ends where e starts
GetPrevEdge(es, e) ==
  IF \E k \in 1..Len(es) : es[k].v2 = e.v1 /\ es[k].v1 # e.v2
  THEN es[CHOOSE k \in 1..Len(es) :
            /\ es[k].v2 = e.v1 /\ es[k].v1 # e.v2
            /\ \A j \in 1..(k - 1) : ~(es[j].v2 = e.v1 /\ es[j].v1 # e.v2)].id
  ELSE NullId

\* a vertex is on the front while a Front edge starts or ends at it
OnFrontNow(vs, es, ids) ==
  Tup([k \in 1..Len(vs) |->
         IF vs[k].id \in ids
         THEN [vs[k] EXCEPT !.on_front =
                 \E j \in 1..Len(es) : es[j].v1 = vs[k].id \/ es[j].v2 = vs[k].id]
         ELSE vs[k]])

\* an edge that leaves the Front stays in the mesh: an edge of the boundary is in
\* boundary_edges already, any other edge becomes an interior edge
LeaveFront(w, e, kept) ==
  [w EXCEPT !.es = RemoveId(w.es, e.id),
            !.mesh.interior_edges =
               IF kept /\ e.marker = InteriorMarker THEN @ \cup {{e.v1, e.v2}} ELSE @]

\* one side a -> b of a new triangle: it closes the Front edge b -> a, which
\* leaves the Front, or it becomes a new Front edge at the end of the list
AdvanceSide(w, a, b) ==
  IF GetEdge(w.es, b, a) # NullId
  THEN LeaveFront(w, ById(w.es, GetEdge(w.es, b, a)), TRUE)
  ELSE [w EXCEPT !.es = Append(w.es, NewEdge(w.ne, a, b, InteriorMarker)),
                 !.ne = w.ne + 1]

\* the base leaves the Front; kept: FrontUpdate keeps it as an interior edge
AdvanceBase(w, base, kept) == LeaveFront(w, base, kept)

AdvanceFlags(w, ids) == [w EXCEPT !.vs = OnFrontNow(w.vs, w.es, ids)]

\* FrontUpdate::advance_front(base, v, t): triangle (base.v1, base.v2, v)
AdvanceFront(w, base, v, kept) ==
  AdvanceFlags(
    AdvanceSide(AdvanceSide(AdvanceBase(w, base, kept), base.v1, v), v, base.v2),
    {base.v1, base.v2, v})

AddTriangle(w, a, b, c) == [w EXCEPT !.mesh.triangles = @ \cup {<<a, b, c>>}]

\* Mesh::add_vertex(xy)
AddVertex(w, xy) ==
  [w EXCEPT !.vs = VerticesPushBack(w.vs, NewVertex(w.nv, xy)), !.nv = w.nv + 1]

\* the vertices update_front can take as the apex over base: on the front, not
\* an end of base, strictly left of base, and within r of the preferred point
ApexCandidates(w, base, xy, r) ==
  {k \in 1..Len(w.vs) :
     /\ w.vs[k].on_front
     /\ w.vs[k].id \notin {base.v1, base.v2}
     /\ IsLeft(VertXY(w.vs, base.v1), VertXY(w.vs, base.v2), w.vs[k].xy)
     /\ RLe(VNormSqr(VSub(w.vs[k].xy, xy)), RMul(r, r))}

\* the nearest of them (the first in the container among equally near ones)
NearestApex(w, cand, xy) ==
  w.vs[CHOOSE k \in cand :
         \A j \in cand :
           \/ RLt(VNormSqr(VSub(w.vs[k].xy, xy)), VNormSqr(VSub(w.vs[j].xy, xy)))
           \/ /\ VNormSqr(VSub(w.vs[k].xy, xy)) = VNormSqr(VSub(w.vs[j].xy, xy))
              /\ k <= j].id

\* update_front commits triangle (base.v1, base.v2, apex): [t, w], t the apex
CommitTriangle(w, base, apex, kept) ==
  [t |-> apex,
   w |-> AdvanceFront(AddTriangle(w, base.v1, base.v2, apex), base, apex, kept)]

\* FrontUpdate::update_front(base, xy, xy, r): [t, w], t = NullId for nullptr.
\* valid is the verdict of FrontUpdate's quality and intersection checks; a
\* triangle without area is rejected whatever the verdict.
UpdateFront(w, base, xy, r, valid, kept) ==
  IF ~valid THEN [t |-> NullId, w |-> w]
  ELSE IF ApexCandidates(w, base, xy, r) # {}
  THEN CommitTriangle(w, base, NearestApex(w, ApexCandidates(w, base, xy, r), xy), kept)
  ELSE IF IsLeft(VertXY(w.vs, base.v1), VertXY(w.vs, base.v2), xy)
  THEN CommitTriangle(AddVertex(w, xy), base, w.nv, kept)
  ELSE [t |-> NullId, w |-> w]

(***************************************************************************)
(* QuadLayer.  A layer ql holds the parallel arrays of the class (indexed   *)
(* from 1 here): bases (base_edges_), b1, b2 (base_v1_, base_v2_), p1, p2   *)
(* (proj_v1_, proj_v2_; NullId for nullptr), p1_xy, p2_xy, heights.  ok is  *)
(* FALSE once one of the class's ASSERTs has failed.                        *)
(***************************************************************************)
EmptyLayer(e_start, e_end, is_closed, height_) ==
  [e_start |-> e_start, e_end |-> e_end, is_closed |-> is_closed, height |-> height_,
   bases |-> <<>>, b1 |-> <<>>, b2 |-> <<>>, p1 |-> <<>>, p2 |-> <<>>,
   p1_xy |-> <<>>, p2_xy |-> <<>>, heights |-> <<>>, ok |-> TRUE]

NoLayer == EmptyLayer(NullId, NullId, FALSE, RZero)

NBases(ql) == Len(ql.bases)

\* the layer height for every base, whatever its length
BaseHeightUnclamped(height_, len) == height_

\* add_quadlayer_edge: the height of the new base
BaseHeight(height_, len) == RMin(height_, len)

AddQuadLayerEdgeAt(ql, e, xy1, xy2, nrm, h) ==
  [ql EXCEPT !.bases = Append(@, e.id),
             !.b1 = Append(@, e.v1),
             !.b2 = Append(@, e.v2),
             !.heights = Append(@, h),
             !.p1_xy = Append(@, VAdd(xy1, VScale(h, nrm))),
             !.p2_xy = Append(@, VAdd(xy2, VScale(h, nrm))),
             !.p1 = Append(@, NullId),
             !.p2 = Append(@, NullId)]

\* add_quadlayer_edge(e_cur)
AddQuadLayerEdge(ql, vs, e) ==
  AddQuadLayerEdgeAt(ql, e, VertXY(vs, e.v1), VertXY(vs, e.v2), EdgeNormal(vs, e),
                     BaseHeight(ql.height, EdgeLength(vs, e)))

\* the do-while of the constructor: the body for e_cur, then the test.  A null
\* e_cur fails the ASSERT; a walk that never meets e_end does not end, which the
\* model cuts off once more edges are collected than the Front holds.
RECURSIVE QuadLayerWalk(_, _, _, _)
RECURSIVE QuadLayerWalkTest(_, _, _, _)
QuadLayerWalk(vs, es, e_cur, ql) ==
  IF e_cur = NullId \/ NBases(ql) > Len(es)
  THEN [ql EXCEPT !.ok = FALSE]
  ELSE QuadLayerWalkTest(vs, es, GetNextEdge(es, ById(es, e_cur)),
                         AddQuadLayerEdge(ql, vs, ById(es, e_cur)))

QuadLayerWalkTest(vs, es, e_cur, ql) ==
  IF e_cur # ql.e_end THEN QuadLayerWalk(vs, es, e_cur, ql) ELSE ql

AddEndingEdge(ql, vs, es) ==
  IF ql.ok THEN AddQuadLayerEdge(ql, vs, ById(es, ql.e_end)) ELSE ql

\* QuadLayer::QuadLayer(e_start, e_end, is_closed, height)
QuadLayerCtor(vs, es, e_start, e_end, is_closed, height_) ==
  AddEndingEdge(QuadLayerWalk(vs, es, e_start,
                              EmptyLayer(e_start, e_end, is_closed, height_)),
                vs, es)

\* base i of the layer as an edge between its two base vertices
BaseOf(ql, i) == [v1 |-> ql.b1[i], v2 |-> ql.b2[i]]

\* smooth_heights: the new height of an inner base
SmoothedHeight(rho, h1, h2, h3) == RMin(rho, RDiv(RAdd(RAdd(h1, h2), h3), R(3)))

\* a height is a multiple of 1/d for some d <= MaxDenominator
HeightInRange(h) == h[2] <= MaxDenominator

\* smooth_heights: the loop, in place, over the inner bases (i counts from 1);
\* it is left at the first height outside the range of the model
RECURSIVE SmoothLoop(_, _, _)
SmoothLoop(vs, ql, i) ==
  IF i > NBases(ql) - 1 \/ ~HeightInRange(ql.heights[i - 1]) THEN ql
  ELSE SmoothLoop(vs,
         [ql EXCEPT !.heights[i] =
            SmoothedHeight(SizeFunction(EdgeMid(vs, BaseOf(ql, i))),
                           ql.heights[i - 1], ql.heights[i], ql.heights[i + 1])],
         i + 1)

SmoothHeights(vs, ql) == IF ql.ok THEN SmoothLoop(vs, ql, 2) ELSE ql

\* adjust_projected_vertex_coordinates: the joint is left as a wedge
IsWedge(p, q, r) == IsLeft(p, r, q) /\ AngleLeQuadLayerAngle(VSub(p, q), VSub(r, q))

\* q + nn * l / sin(alpha / 2), nn = (n1 + n2) / |n1 + n2|.  For unit normals
\* |n1 + n2| = 2 sin(alpha / 2), so the offset is (n1 + n2) * l / (1 - cos alpha).
MergedXY(q, n1, n2, l, cos_alpha) ==
  VAdd(q, VScale(RDiv(l, RSub(ROne, cos_alpha)), VAdd(n1, n2)))

\* only base j takes the merged coordinate
AdjustOneSide(ql, i, j, xy_proj) == [ql EXCEPT !.p1_xy[j] = xy_proj]

AdjustMerged(ql, i, j, xy_proj) ==
  [ql EXCEPT !.p1_xy[j] = xy_proj, !.p2_xy[i] = xy_proj]

AdjustJoint(vs, ql, i, j, p, q, r) ==
  IF IsWedge(p, q, r) THEN ql
  ELSE AdjustMerged(ql, i, j,
         MergedXY(q, EdgeNormal(vs, BaseOf(ql, i)), EdgeNormal(vs, BaseOf(ql, j)),
                  RMul(RHalf, RAdd(ql.heights[i], ql.heights[j])),
                  CosAngle(VSub(p, q), VSub(r, q))))

\* adjust_projected_vertex_coordinates(i, j)
AdjustProjectedVertexCoordinates(vs, ql, i, j) ==
  AdjustJoint(vs, ql, i, j,
              VertXY(vs, ql.b1[i]), VertXY(vs, ql.b1[j]), VertXY(vs, ql.b2[j]))

\* setup_vertex_projection: the loop over the inner joints
RECURSIVE AdjustLoop(_, _, _)
AdjustLoop(vs, ql, j) ==
  IF j > NBases(ql) THEN ql
  ELSE AdjustLoop(vs, AdjustProjectedVertexCoordinates(vs, ql, j - 1, j), j + 1)

\* EdgeList::split_edge(e, verts, sf, false): e gives way, in place, to two edges
\* with e's marker that share a new vertex at parameter sf along e
SplitVertexXY(w, e, sf) == VAdd(VertXY(w.vs, e.v1), VScale(sf, EdgeVec(w.vs, e)))

SplitVertex(w, e, sf) ==
  [NewVertex(w.nv, SplitVertexXY(w, e, sf)) EXCEPT
     !.on_front = TRUE,
     !.on_boundary = ById(w.vs, e.v1).on_boundary /\ ById(w.vs, e.v2).on_boundary]

ReplaceById(seq, id, x, y) ==
  SubSeq(seq, 1, IdxOf(seq, id) - 1) \o <<x, y>>
    \o SubSeq(seq, IdxOf(seq, id) + 1, Len(seq))

SplitEdge(w, e, sf) ==
  [w EXCEPT !.vs = InsertBefore(w.vs, e.v2, SplitVertex(w, e, sf)),
            !.es = ReplaceById(w.es, e.id,
                               NewEdge(w.ne, e.v1, w.nv, e.marker),
                               NewEdge(w.ne + 1, w.nv, e.v2, e.marker)),
            !.nv = w.nv + 1,
            !.ne = w.ne + 2]

\* place_start_vertex / place_end_vertex: the entry of boundary_edges for the
\* edge that is split is removed, and the two halves are inserted before the
\* entry that followed it (get_next_edge)
MirrorHalves(bdry, e_bdry_rem, tmp, e1, e2) ==
  InsertBefore(InsertBefore(RemoveId(bdry, e_bdry_rem), tmp, e1), tmp, e2)

MirrorSplitAt(w, e, e_bdry_rem, ne) ==
  IF e_bdry_rem = NullId THEN w
  ELSE [w EXCEPT !.mesh.boundary_edges =
          MirrorHalves(@, e_bdry_rem,
                       GetNextEdge(@, ById(@, e_bdry_rem)),
                       NewEdge(ne, e.v1, w.nv - 1, e.marker),
                       NewEdge(ne + 1, w.nv - 1, e.v2, e.marker))]

\* the ASSERT on the entry that follows the removed one
MirrorAssert(bdry, e_bdry_rem) ==
  e_bdry_rem = NullId \/ GetNextEdge(bdry, ById(bdry, e_bdry_rem)) # NullId

\* split e at sf and mirror the split in boundary_edges; the new vertex is w.nv
SplitAndMirror(w, e, sf) ==
  MirrorSplitAt(SplitEdge(w, e, sf), e,
                GetEdge(w.mesh.boundary_edges, e.v1, e.v2), w.ne)

\* d_fac < 1.0, d_fac = |v.xy - proj_xy| / h, for h > 0
DFacBelowOne(v_xy, proj_xy, h) == RLt(VNormSqr(VSub(v_xy, proj_xy)), RMul(h, h))

\* place_start_vertex: sf = (h * cos(alpha)) / e_prv.length
StartSplitFactor(h, cos_alpha, len) == RDiv(RMul(h, cos_alpha), len)

\* place_end_vertex: sf = 1 - (h * cos(alpha)) / e_nxt.length
EndSplitFactor(h, cos_alpha, len) == RSub(ROne, RDiv(RMul(h, cos_alpha), len))

FailedLayer(s) == [s EXCEPT !.ql.ok = FALSE]

\* place_start_vertex after its ASSERT; s = [ql, w], e_prv the edge before
\* e_start, v_prev its first vertex, v_start = base_v1_[0]
PlaceStartAt(s, e_prv, v_prev, v_start, h) ==
  IF ~IsLeft(v_start, VertXY(s.w.vs, s.ql.b2[1]), v_prev) THEN s
  ELSE IF DFacBelowOne(v_prev, s.ql.p1_xy[1], h)
  THEN [s EXCEPT !.ql.p1[1] = e_prv.v1]
  ELSE IF RLt(h, EdgeLength(s.w.vs, e_prv))
  THEN IF ~MirrorAssert(s.w.mesh.boundary_edges,
                        GetEdge(s.w.mesh.boundary_edges, e_prv.v1, e_prv.v2))
       THEN FailedLayer(s)
       ELSE [ql |-> [s.ql EXCEPT
                       !.p1[1] = s.w.nv,
                       !.p1_xy[1] = SplitVertexXY(s.w, e_prv,
                          StartSplitFactor(h,
                            CosAngle(VSub(v_prev, v_start), VSub(s.ql.p1_xy[1], v_start)),
                            EdgeLength(s.w.vs, e_prv)))],
             w  |-> SplitAndMirror(s.w, e_prv,
                      StartSplitFactor(h,
                        CosAngle(VSub(v_prev, v_start), VSub(s.ql.p1_xy[1], v_start)),
                        EdgeLength(s.w.vs, e_prv)))]
  ELSE [s EXCEPT !.ql.p1[1] = e_prv.v1, !.ql.p1_xy[1] = v_prev]

PlaceStartEdge(s, e_prv) ==
  IF e_prv = NullId THEN FailedLayer(s)
  ELSE IF ById(s.w.es, e_prv).v2 # s.ql.b1[1] THEN FailedLayer(s)
  ELSE PlaceStartAt(s, ById(s.w.es, e_prv),
                    VertXY(s.w.vs, ById(s.w.es, e_prv).v1),
                    VertXY(s.w.vs, s.ql.b1[1]), s.ql.heights[1])

\* place_start_vertex(verts, front, bdry_edges)
PlaceStartVertex(s) ==
  PlaceStartEdge(s, GetPrevEdge(s.w.es, ById(s.w.es, s.ql.e_start)))

\* place_end_vertex after its ASSERT; n = the last base, e_nxt the edge after
\* e_end, v_next its second vertex, v_end = base_v2_.back()
PlaceEndAt(s, n, e_nxt, v_next, v_end, h) ==
  IF ~IsLeft(VertXY(s.w.vs, s.ql.b1[n]), v_end, v_next) THEN s
  ELSE IF DFacBelowOne(v_next, s.ql.p2_xy[n], h)
  THEN [s EXCEPT !.ql.p2[n] = e_nxt.v2]
  ELSE IF RLt(h, EdgeLength(s.w.vs, e_nxt))
  THEN IF ~MirrorAssert(s.w.mesh.boundary_edges,
                        GetEdge(s.w.mesh.boundary_edges, e_nxt.v1, e_nxt.v2))
       THEN FailedLayer(s)
       ELSE [ql |-> [s.ql EXCEPT
                       !.p2[n] = s.w.nv,
                       !.p2_xy[n] = SplitVertexXY(s.w, e_nxt,
                          EndSplitFactor(h,
                            CosAngle(VSub(v_next, v_end), VSub(s.ql.p2_xy[n], v_end)),
                            EdgeLength(s.w.vs, e_nxt)))],
             w  |-> SplitAndMirror(s.w, e_nxt,
                      EndSplitFactor(h,
                        CosAngle(VSub(v_next, v_end), VSub(s.ql.p2_xy[n], v_end)),
                        EdgeLength(s.w.vs, e_nxt)))]
  ELSE [s EXCEPT !.ql.p2[n] = e_nxt.v2, !.ql.p2_xy[n] = v_next]

PlaceEndEdge(s, e_nxt) ==
  IF e_nxt = NullId THEN FailedLayer(s)
  ELSE IF ById(s.w.es, e_nxt).v1 # s.ql.b2[NBases(s.ql)] THEN FailedLayer(s)
  ELSE PlaceEndAt(s, NBases(s.ql), ById(s.w.es, e_nxt),
                  VertXY(s.w.vs, ById(s.w.es, e_nxt).v2),
                  VertXY(s.w.vs, s.ql.b2[NBases(s.ql)]), s.ql.heights[NBases(s.ql)])

\* place_end_vertex(verts, front, bdry_edges)
PlaceEndVertex(s) ==
  IF ~s.ql.ok THEN s
  ELSE PlaceEndEdge(s, GetNextEdge(s.w.es, ById(s.w.es, s.ql.e_end)))

SetupEnds(s) ==
  IF s.ql.is_closed
  THEN [s EXCEPT !.ql = AdjustProjectedVertexCoordinates(s.w.vs, s.ql, NBases(s.ql), 1)]
  ELSE PlaceEndVertex(PlaceStartVertex(s))

\* setup_vertex_projection(mesh, front): [ql, w]
SetupVertexProjection(w, ql) ==
  IF ~ql.ok THEN [ql |-> ql, w |-> w]
  ELSE SetupEnds([ql |-> AdjustLoop(w.vs, ql, 2), w |-> w])

(***************************************************************************)
(* FrontQuadLayering: the steps of generate_quad_layer.                     *)
(***************************************************************************)

\* FrontQuadLayering::quad_layer_range_
QuadLayerRange == <<3, 4>>

\* the scan over the Front for the vertex v1 nearest to xy: a later edge replaces
\* the choice only if it is strictly nearer; NullId on an empty Front.  (The
\* start value 1.0E+10 of the minimum is far above every modelled distance.)
NearestV1(vs, es, xy) ==
  IF Len(es) = 0 THEN NullId
  ELSE es[CHOOSE k \in 1..Len(es) :
            \A j \in 1..Len(es) :
              \/ RLt(VNormSqr(VSub(xy, VertXY(vs, es[k].v1))),
                     VNormSqr(VSub(xy, VertXY(vs, es[j].v1))))
              \/ /\ VNormSqr(VSub(xy, VertXY(vs, es[k].v1)))
                      = VNormSqr(VSub(xy, VertXY(vs, es[j].v1)))
                 /\ k <= j].v1

\* Front::is_traversable(a, b): b is met when following next-edge links from a,
\* before the walk comes back to a, and no edge on the way has a twin
RECURSIVE TraversableWalk(_, _, _, _)
TraversableWalk(es, cur, b, n) ==
  IF cur = NullId \/ n = 0 THEN FALSE
  ELSE IF ById(es, cur).twin # NoTwin THEN FALSE
  ELSE IF cur = b THEN TRUE
  ELSE TraversableWalk(es, GetNextEdge(es, ById(es, cur)), b, n - 1)

IsTraversable(es, a, b) == TraversableWalk(es, a, b, Len(es))

\* the rotation of a closed span: does the layer start one edge further on?
RotateClosed(vs, es, e_start, e_end) ==
  /\ GetNextEdge(es, e_start) # NullId
  /\ AngleLeQuadLayerAngle(VSub(VertXY(vs, e_end.v1), VertXY(vs, e_end.v2)),
                           VSub(VertXY(vs, e_start.v2), VertXY(vs, e_end.v2)))

\* the QuadLayer of generate_quad_layer, built, smoothed and projected: [ql, w]
BuildLayer(w, e_start, e_end, is_closed, height_) ==
  SetupVertexProjection(w,
    SmoothHeights(w.vs, QuadLayerCtor(w.vs, w.es, e_start, e_end, is_closed, height_)))

NoSelection(w) == [found |-> FALSE, ql |-> NoLayer, w |-> w]

Selected(s) == [found |-> TRUE, ql |-> s.ql, w |-> s.w]

SelectSpan(w, e_start, e_end, is_closed, height_) ==
  IF is_closed /\ RotateClosed(w.vs, w.es, ById(w.es, e_start), ById(w.es, e_end))
  THEN Selected(BuildLayer(w, GetNextEdge(w.es, ById(w.es, e_start)), e_start,
                           is_closed, height_))
  ELSE Selected(BuildLayer(w, e_start, e_end, is_closed, height_))

\* the span is taken without the test of is_traversable
SelectEdgesUntested(w, v_start, v_end, e_start, e_end, height_) ==
  IF e_start = NullId \/ e_end = NullId THEN NoSelection(w)
  ELSE SelectSpan(w, e_start, e_end, v_start = v_end, height_)

SelectEdges(w, v_start, v_end, e_start, e_end, height_) ==
  IF e_start = NullId \/ e_end = NullId THEN NoSelection(w)
  ELSE IF ~IsTraversable(w.es, e_start, e_end) THEN NoSelection(w)
  ELSE SelectSpan(w, e_start, e_end, v_start = v_end, height_)

SelectVertices(w, v_start, v_end, height_) ==
  IF v_start = NullId \/ v_end = NullId THEN NoSelection(w)
  ELSE SelectEdges(w, v_start, v_end,
                   GetEdgeAt(w.es, v_start, 1), GetEdgeAt(w.es, v_end, 2), height_)

\* generate_quad_layer up to the call of create_quad_layer_elements: found is
\* FALSE if one of the early returns was taken
SelectLayer(w, xy_start, xy_end, height_) ==
  SelectVertices(w, NearestV1(w.vs, w.es, xy_start), NearestV1(w.vs, w.es, xy_end),
                 height_)

(***************************************************************************)
(* create_quad_layer_elements: one iteration of the loop, for base i.       *)
(* valid1, valid2: the verdicts of FrontUpdate on the two triangles;        *)
(* bridged: whether FrontUpdate kept the edge (p1, b2) as an interior edge. *)
(* The result is [w, ql, why, rej]: why names the way the iteration ended,  *)
(* rej counts the unfavourable verdicts that were used.                     *)
(***************************************************************************)
BaseResult(w, ql, why, rej) == [w |-> w, ql |-> ql, why |-> why, rej |-> rej]

SearchRadius(h) == RMul(QuadLayerRange, h)

Unfavourable(verdict) == IF verdict THEN 0 ELSE 1

\* the quad is added over the two triangles, which stay
AddQuadOverTriangles(w, b1, b2, p2, p1) ==
  [w EXCEPT !.mesh.interior_edges = @ \ {{b2, p1}},
            !.mesh.quads = @ \cup {<<b1, b2, p2, p1>>}]

\* the quad replaces the two triangles and the interior edge between them
AddQuad(w, b1, b2, p2, p1) ==
  [w EXCEPT !.mesh.interior_edges = @ \ {{b2, p1}},
            !.mesh.triangles = @ \ {<<b1, b2, p1>>, <<p1, b2, p2>>},
            !.mesh.quads = @ \cup {<<b1, b2, p2, p1>>}]

MergeTriangles(w, ql, i, bridged) ==
  IF {ql.b2[i], ql.p1[i]} \notin w.mesh.interior_edges
  THEN BaseResult(w, ql, "no_interior_edge", Unfavourable(bridged))
  ELSE BaseResult(AddQuad(w, ql.b1[i], ql.b2[i], ql.p2[i], ql.p1[i]), ql, "quad", 0)

SecondTriangleDone(w, ql, i, u, valid2, bridged) ==
  IF u.t = NullId THEN BaseResult(w, ql, "t2_null", Unfavourable(valid2))
  ELSE MergeTriangles(u.w, [ql EXCEPT !.p2[i] = u.t], i, bridged)

SecondTriangle(w, ql, i, base, valid2, bridged) ==
  IF base = NullId THEN BaseResult(w, ql, "no_second_base", 0)
  ELSE SecondTriangleDone(w, ql, i,
         UpdateFront(w, ById(w.es, base), ql.p2_xy[i],
                     SearchRadius(ql.heights[i]), valid2, bridged),
         valid2, bridged)

FirstTriangleDone(w, ql, i, u, valid1, valid2, bridged) ==
  IF u.t = NullId THEN BaseResult(w, ql, "t1_null", Unfavourable(valid1))
  ELSE SecondTriangle(u.w, [ql EXCEPT !.p1[i] = u.t], i,
                      GetEdge(u.w.es, u.t, ql.b2[i]), valid2, bridged)

CreateQuadLayerElement(w, ql, i, valid1, valid2, bridged) ==
  IF ~HasId(w.es, ql.bases[i]) THEN BaseResult(w, ql, "not_in_container", 0)
  ELSE FirstTriangleDone(w, ql, i,
         UpdateFront(w, ById(w.es, ql.bases[i]), ql.p1_xy[i],
                     SearchRadius(ql.heights[i]), valid1, TRUE),
         valid1, valid2, bridged)

(***************************************************************************)
(* finish_quad_layer: one iteration of the loop, for the joint before base  *)
(* i (i counts from 1, so i >= 2).  valid: the verdict of                   *)
(* remove_from_mesh_if_invalid.  The result is [w, rej, ok]; ok is FALSE if *)
(* advance_front was handed a null base.                                    *)
(***************************************************************************)
GapResult(w, rej, ok) == [w |-> w, rej |-> rej, ok |-> ok]

FixVertex(w, v) ==
  [w EXCEPT !.vs = Tup([k \in 1..Len(w.vs) |->
                          IF w.vs[k].id = v THEN [w.vs[k] EXCEPT !.is_fixed = TRUE]
                          ELSE w.vs[k]])]

\* alpha <= quad_layer_angle_: connect (a, b, c)
GapTriangle(w, a, b, c, base) ==
  IF base = NullId THEN GapResult(w, 0, FALSE)
  ELSE GapResult(AdvanceFront(AddTriangle(w, a, b, c), ById(w.es, base), a, TRUE),
                 0, TRUE)

\* the second triangle of the pair over the new vertex v
GapPairSecond(w, b, c, v, base) ==
  IF base = NullId THEN GapResult(w, 0, FALSE)
  ELSE GapResult(FixVertex(AdvanceFront(AddTriangle(w, b, c, v), ById(w.es, base),
                                        v, TRUE), v),
                 0, TRUE)

GapPairNext(w, b, c, v) == GapPairSecond(w, b, c, v, GetEdge(w.es, b, c))

\* the first triangle of the pair over the new vertex v
GapPairFirst(w, a, b, c, v, base) ==
  IF base = NullId THEN GapResult(w, 0, FALSE)
  ELSE GapPairNext(AdvanceFront(AddTriangle(w, a, b, v), ById(w.es, base), v, TRUE),
                   b, c, v)

\* otherwise: a new vertex at b + l1 + l2 and two triangles
GapPair(w, a, b, c, v_xy) ==
  GapPairFirst(AddVertex(w, v_xy), a, b, c, w.nv, GetEdge(w.es, a, b))

GapAt(w, a, b, c, l1, l2, valid) ==
  IF ~valid THEN GapResult(w, 1, TRUE)
  ELSE IF AngleLeQuadLayerAngle(l1, l2)
  THEN GapTriangle(w, a, b, c, GetEdge(w.es, b, c))
  ELSE GapPair(w, a, b, c, VAdd(VAdd(VertXY(w.vs, b), l1), l2))

FinishQuadLayerJoint(w, ql, i, valid) ==
  IF ql.p1[i] = NullId \/ ql.p2[i - 1] = NullId \/ ql.p1[i] = ql.p2[i - 1]
  THEN GapResult(w, 0, TRUE)
  ELSE GapAt(w, ql.p2[i - 1], ql.b1[i], ql.p1[i],
             VSub(VertXY(w.vs, ql.p2[i - 1]), VertXY(w.vs, ql.b1[i])),
             VSub(VertXY(w.vs, ql.p1[i]), VertXY(w.vs, ql.b1[i])), valid)

(***************************************************************************)
(* generate_quad_layer: the search for the new anchors.                     *)
(***************************************************************************)

\* CppUtils MOD(a, n): the remainder in 0 .. n-1
MOD(a, n) == ((a % n) + n) % n

OnFront(vs, v) == ById(vs, v).on_front

AnchorResult(kind, xy_start, xy_end) ==
  [kind |-> kind, xy_start |-> xy_start, xy_end |-> xy_end]

\* the statements after the do-while
AnchorsFound(vs, v_start_in, v_end_in, xy_start, xy_end) ==
  IF v_start_in = NullId \/ v_end_in = NullId
  THEN AnchorResult("false", xy_start, xy_end)
  ELSE AnchorResult("true", VertXY(vs, v_start_in), VertXY(vs, v_end_in))

AnchorLoopNever(start_on_front, end_on_front) == FALSE

\* the exit test of the do-while: the loop goes on while
\* !(v_start_in->on_front()) && !(v_end_in->on_front())
AnchorLoopExits(start_on_front, end_on_front) ==
  ~(~start_on_front /\ ~end_on_front)

\* the do-while from index i (counted from 0, as in the source).  Reading p1 or
\* p2 past the end, and calling on_front() through a null pointer, are undefined.
RECURSIVE AnchorSearch(_, _, _, _, _)
RECURSIVE AnchorTest(_, _, _, _, _, _, _)
AnchorSearch(vs, ql, i, xy_start, xy_end) ==
  IF i >= NBases(ql) THEN AnchorResult("undefined", xy_start, xy_end)
  ELSE AnchorTest(vs, ql, i, xy_start, xy_end, ql.p1[i + 1],
                  IF ql.is_closed THEN ql.p1[i + 1]
                  ELSE ql.p2[MOD(i - 1, NBases(ql)) + 1])

AnchorTest(vs, ql, i, xy_start, xy_end, v_start_in, v_end_in) ==
  IF v_start_in = NullId THEN AnchorResult("undefined", xy_start, xy_end)
  ELSE IF ~OnFront(vs, v_start_in) /\ v_end_in = NullId
  THEN AnchorResult("undefined", xy_start, xy_end)
  ELSE IF AnchorLoopExits(OnFront(vs, v_start_in),
                          v_end_in # NullId /\ OnFront(vs, v_end_in))
  THEN AnchorsFound(vs, v_start_in, v_end_in, xy_start, xy_end)
  ELSE AnchorSearch(vs, ql, i + 1, xy_start, xy_end)

(***************************************************************************)
(* The variables of the driver.                                             *)
(***************************************************************************)
EmptyMesh ==
  [boundary_edges |-> <<>>, interior_edges |-> {}, triangles |-> {}, quads |-> {}]

driverVars == <<mesh_, config, xy_start_, xy_end_, pc, height, i_layer, success,
                quad_layer, i_base, n_rejected, skipped, log>>

\* the values of the driver's variables while no generate_elements call is modelled
NoDriver ==
  /\ mesh_ = EmptyMesh
  /\ config = [n_layers |-> 0, first_height |-> ROne, growth_rate |-> ROne]
  /\ xy_start_ = V(0, 0)
  /\ xy_end_ = V(0, 0)
  /\ height = RZero
  /\ i_layer = 0
  /\ success = TRUE
  /\ quad_layer = NoLayer
  /\ i_base = 0
  /\ n_rejected = 0
  /\ skipped = {}
  /\ log = <<>>

(***************************************************************************)
(* The Front on its own: construction, init_front, and the cursor          *)
(* operations, called in any order by the code that owns the Front.        *)
(***************************************************************************)
EmptyFront(d) ==
  /\ domain = d
  /\ mesh_vertices = <<>>
  /\ edges_ = <<>>
  /\ base_ = NullId
  /\ area_ = RZero
  /\ seed_twin = [r \in SeedRefs(d.bdry) |-> NullId]
  /\ next_vid = 1
  /\ next_eid = 1

\* no call of refine_edge is followed step by step
NotRefining == [pc |-> "none"]

FrontInit ==
  /\ \E d \in Domains : EmptyFront(d)
  /\ refining = NotRefining
  /\ last_op = "constructed"
  /\ pc = "front"
  /\ NoDriver

FrontLive == last_op \notin {"crashed", "assert_failed"}

\* Front::init_front(domain, front_initializer, mesh_vertices) on the new Front.
\* The ASSERT in create_sub_vertex_coords is compiled in unless NDEBUG is set:
\* where it does not hold, the call ends there in one build and goes on with the
\* array as it is in the other.
InitFront ==
  /\ FrontLive /\ next_eid = 1
  /\ \/ /\ \E st \in {InitFrontOp(domain.bdry, FrontState)} :
             /\ mesh_vertices' = st.vs
             /\ edges_' = st.es
             /\ next_vid' = st.nv
             /\ next_eid' = st.ne
             /\ area_' = st.area
             /\ seed_twin' = st.stw
        /\ last_op' = "init_front"
     \/ /\ ~RefineAssertsHold(InitFrontLoop(domain.bdry, 1, FrontState))
        /\ last_op' = "assert_failed"
        /\ UNCHANGED <<mesh_vertices, edges_, next_vid, next_eid, area_, seed_twin>>
  /\ UNCHANGED <<domain, refining, base_>>
  /\ UNCHANGED driverVars

\* Front::set_base_first()
SetBaseFirst ==
  /\ FrontLive
  /\ base_' = BaseFirst(edges_, base_)
  /\ last_op' = "set_base_first"
  /\ UNCHANGED <<domain, refining, mesh_vertices, edges_, area_, seed_twin, next_vid, next_eid>>
  /\ UNCHANGED driverVars

\* Front::set_base_next() with a cursor that refers to an edge of the Front
\* (or on an empty Front, where it returns at once)
SetBaseNext ==
  /\ FrontLive
  /\ Len(edges_) < 1 \/ HasId(edges_, base_)
  /\ base_' = BaseNext(edges_, base_)
  /\ last_op' = "set_base_next"
  /\ UNCHANGED <<domain, refining, mesh_vertices, edges_, area_, seed_twin, next_vid, next_eid>>
  /\ UNCHANGED driverVars

\* Front::set_base_next() on a non-empty Front whose cursor is null: base_->pos()
\* dereferences a null pointer.  The call is undefined: the process is killed, or
\* the cursor ends up with whatever the stray read produced.
SetBaseNextNull ==
  /\ FrontLive
  /\ Len(edges_) >= 1 /\ ~HasId(edges_, base_)
  /\ \/ last_op' = "crashed" /\ base_' = base_
     \/ last_op' = "set_base_next_undefined" /\ base_' = GarbageId
  /\ UNCHANGED <<domain, refining, mesh_vertices, edges_, area_, seed_twin, next_vid, next_eid>>
  /\ UNCHANGED driverVars

\* Front::sort_edges(ascending)
SortEdges ==
  /\ FrontLive
  /\ \E ascending \in BOOLEAN :
       /\ edges_' = SortedEdges(mesh_vertices, edges_, ascending)
       /\ base_' = BaseFirst(edges_', base_)
  /\ last_op' = "sort_edges"
  /\ UNCHANGED <<domain, refining, mesh_vertices, area_, seed_twin, next_vid, next_eid>>
  /\ UNCHANGED driverVars

\* Front::base(Edge& b), called with an edge of the Front
SetBase ==
  /\ FrontLive
  /\ \E k \in 1..Len(edges_) : base_' = edges_[k].id
  /\ last_op' = "base"
  /\ UNCHANGED <<domain, refining, mesh_vertices, edges_, area_, seed_twin, next_vid, next_eid>>
  /\ UNCHANGED driverVars

FrontNext ==
  \/ InitFront
  \/ SetBaseFirst
  \/ SetBaseNext
  \/ SetBaseNextNull
  \/ SortEdges
  \/ SetBase

(***************************************************************************)
(* refine_edge followed step by step: one call of create_sub_vertex_coords *)
(* on one edge, one action for each pass of its while ( true ) loop.  A    *)
(* double holds finitely many values: here the point xy_c = xy + dxy_c is  *)
(* stored as the nearest multiple of 1/Grid, and the vector xy_new holds   *)
(* at most MaxPoints points before push_back throws std::bad_alloc.        *)
(***************************************************************************)

\* the nearest multiple of 1/Grid
RoundGrid(r) == RNorm((2 * r[1] * Grid + r[2]) \div (2 * r[2]), Grid)

RoundXY(xy) == <<RoundGrid(xy[1]), RoundGrid(xy[2])>>

\* square domains of side s, with the size functions of Domains and one with
\* a sink
RefineDomains ==
  { [bdry |-> <<RingSeeds(OuterPts(s, s), {}, 0)>>,
     rho_a |-> sp[1], rho_b |-> sp[2], peak |-> sp[3]] :
      s \in Sides, sp \in SizeParams \cup {<<ROne, RZero, SinkAt>>} }

\* refine_edge is called for an edge from v1 to v2
RefineInit ==
  /\ \E d \in RefineDomains :
       /\ EmptyFront(d)
       /\ \E k \in 1..Len(d.bdry[1]) :
            refining = [pc |-> "called", v1 |-> d.bdry[1][k].v1, v2 |-> d.bdry[1][k].v2]
  /\ last_op = "constructed"
  /\ pc = "front"
  /\ NoDriver

\* create_sub_vertex_coords up to its loop, for the edge from xy_1 to xy_2
SubVertexEntered(xy_1, xy_2, dir, rho_1, rho_2) ==
  [pc     |-> "loop",
   dir    |-> dir,
   xy_a   |-> IF dir THEN xy_1 ELSE xy_2,
   xy_b   |-> IF dir THEN xy_2 ELSE xy_1,
   tang   |-> VScale(RDiv(ROne, VNorm(VSub(xy_2, xy_1))),
                     IF dir THEN VSub(xy_2, xy_1) ELSE VSub(xy_1, xy_2)),
   len    |-> VNorm(VSub(xy_2, xy_1)),
   s_end  |-> RSub(ROne, RDiv(RMul(RHalf, IF dir THEN rho_2 ELSE rho_1),
                              VNorm(VSub(xy_2, xy_1)))),
   xy     |-> IF dir THEN xy_1 ELSE xy_2,
   xy_new |-> <<IF dir THEN xy_1 ELSE xy_2>>,
   s_last |-> RZero]

\* refine_edge: rho_1, rho_2 and dir, and the call of create_sub_vertex_coords
RefineEdgeBegin ==
  /\ refining.pc = "called"
  /\ \E rho_1 \in {SizeFunction(refining.v1)} :
     \E rho_2 \in {SizeFunction(refining.v2)} :
     \E r \in {SubVertexEntered(refining.v1, refining.v2, RLt(rho_1, rho_2), rho_1, rho_2)} :
       refining' = r
  /\ UNCHANGED <<domain, mesh_vertices, edges_, base_, area_, seed_twin, next_vid,
                 next_eid, last_op>>
  /\ UNCHANGED driverVars

\* the end of one pass: push_back, s_last, xy and the test s > s_end
SubVertexPassed(r, xy_c, s) ==
  IF Len(r.xy_new) >= MaxPoints THEN [r EXCEPT !.pc = "bad_alloc"]
  ELSE [r EXCEPT !.xy_new = Append(r.xy_new, xy_c),
                 !.s_last = s,
                 !.xy = xy_c,
                 !.pc = IF RLt(r.s_end, s) THEN "cropping" ELSE "loop"]

\* one pass of the loop of create_sub_vertex_coords, local by local
SubVertexPass ==
  /\ refining.pc = "loop"
  /\ \E rho \in {SizeFunction(refining.xy)} :
     \E xy_p \in {VAdd(refining.xy, VScale(rho, refining.tang))} :
     \E rho_p \in {SizeFunction(xy_p)} :
     \E dxy_c \in {VScale(RMul(RHalf, RAdd(rho, rho_p)), refining.tang)} :
     \E xy_c \in {RoundXY(VAdd(refining.xy, dxy_c))} :
     \E s \in {ArcParameter(xy_c, refining.xy_a, refining.len)} :
       refining' = SubVertexPassed(refining, xy_c, s)
  /\ UNCHANGED <<domain, mesh_vertices, edges_, base_, area_, seed_twin, next_vid,
                 next_eid, last_op>>
  /\ UNCHANGED driverVars

\* create_sub_vertex_coords after its loop.  Where the ASSERT does not hold, the
\* call ends there in one build and returns the array in the other.
SubVertexReturn ==
  /\ refining.pc = "cropping"
  /\ \E d_cr \in {VScale(RMul(RSub(ROne, refining.s_last), refining.len), refining.tang)} :
     \E rho_i \in {SubVertexWeights(refining.xy_new)} :
     \E rho_tot \in {RSum(rho_i, 1)} :
     \E xy_new \in {DistributeCropped(
                       [refining.xy_new EXCEPT ![Len(refining.xy_new)] = refining.xy_b],
                       rho_i, rho_tot, d_cr)} :
       \/ refining' = [refining EXCEPT
                         !.pc = "returned",
                         !.xy_new = IF refining.dir THEN xy_new ELSE Reverse(xy_new)]
       \/ /\ ~AscendingAssert(xy_new)
          /\ refining' = [refining EXCEPT !.pc = "assert_failed"]
  /\ UNCHANGED <<domain, mesh_vertices, edges_, base_, area_, seed_twin, next_vid,
                 next_eid, last_op>>
  /\ UNCHANGED driverVars

RefineNext ==
  \/ RefineEdgeBegin
  \/ SubVertexPass
  \/ SubVertexReturn

(***************************************************************************)
(* FrontQuadLayering::generate_elements, from the call to the return.  pc   *)
(* is the position of the call: "idle" before it, "loop" at the test of the *)
(* layer loop, "bases" inside create_quad_layer_elements, "gaps" inside     *)
(* finish_quad_layer and up to the return of generate_quad_layer,           *)
(* "returned" after the return, "crashed" if the process was killed.        *)
(* log records the calls made and the values returned; skipped records the  *)
(* bases of the current layer that a failed commit or a missing interior    *)
(* edge made the loop skip.                                                 *)
(***************************************************************************)
Ev(op, h, v) == [op |-> op, height |-> h, value |-> v]

World ==
  [vs |-> mesh_vertices, es |-> edges_, nv |-> next_vid, ne |-> next_eid,
   mesh |-> mesh_]

SetWorld(w) ==
  /\ mesh_vertices' = w.vs
  /\ edges_' = w.es
  /\ next_vid' = w.nv
  /\ next_eid' = w.ne
  /\ mesh_' = w.mesh

\* the boundary edges the mesh builder has entered for the domain, one per
\* domain edge; their end vertices are the builder's and play no part here
BuilderEdges(bdry) ==
  IF Len(bdry) = 0 THEN <<>>
  ELSE Tup([k \in 1..Len(bdry[1]) |-> NewEdge(k, NullId, NullId, bdry[1][k].marker)])

\* rectangles without holes and without twin edges, uniform size function 1
DriverDomains ==
  { [bdry |-> <<RingSeeds(OuterPts(wh[1], wh[2]), {}, 0)>>,
     rho_a |-> ROne, rho_b |-> RZero, peak |-> NoPeak] :
      wh \in {MaxSide - 2, MaxSide - 1} \X {1, MaxSide - 2} }

Configs ==
  [n_layers : 0..MaxLayers, first_height : {RHalf, ROne}, growth_rate : {ROne, R(2)}]

\* starting and ending positions on the lower side of the rectangle: its two
\* corners, two points in between, the two ends of its first edge, one point twice
Anchors(d) ==
  { <<V(0, 0), d.bdry[1][2].v1>>, <<V(0, 0), V(MaxSide - 2, 0)>>, <<V(0, 0), V(0, 0)>>,
    <<V(0, 0), V(1, 0)>> }

DriverInit ==
  /\ \E d \in DriverDomains :
       /\ EmptyFront(d)
       /\ \E a \in Anchors(d) : xy_start_ = a[1] /\ xy_end_ = a[2]
       /\ \E prepared \in BOOLEAN :
            mesh_ = [EmptyMesh EXCEPT
                       !.boundary_edges = IF prepared THEN BuilderEdges(d.bdry) ELSE <<>>]
  /\ last_op = "constructed"
  /\ refining = NotRefining
  /\ config \in Configs
  /\ pc = "idle"
  /\ height = RZero
  /\ i_layer = 0
  /\ success = TRUE
  /\ quad_layer = NoLayer
  /\ i_base = 0
  /\ n_rejected = 0
  /\ skipped = {}
  /\ log = <<>>

\* generate_elements: the test mesh_.n_boundary_edges() < 1
BoundaryCountNegative(n_boundary_edges) == n_boundary_edges < 0

NoBoundaryEdges(n_boundary_edges) == n_boundary_edges < 1

\* generate_elements on a mesh without boundary edges: return false
GenerateElementsEmpty ==
  /\ pc = "idle"
  /\ NoBoundaryEdges(Len(mesh_.boundary_edges))
  /\ pc' = "returned"
  /\ log' = Append(log, Ev("return", RZero, FALSE))
  /\ UNCHANGED <<frontVars, mesh_, config, xy_start_, xy_end_, height, i_layer,
                 success, quad_layer, i_base, n_rejected, skipped>>

\* generate_elements up to the layer loop: setup_facet_connectivity,
\* init_advancing_front(false) (init_front and set_base_first, no sorting),
\* remove_invalid_mesh_edges (boundary_edges now hold the Front's edges),
\* height = first_height_, success = true, i_layer = 0
GenerateElementsBegin ==
  /\ pc = "idle"
  /\ ~NoBoundaryEdges(Len(mesh_.boundary_edges))
  /\ \E st \in {InitFrontOp(domain.bdry, FrontState)} :
       /\ mesh_vertices' = st.vs
       /\ edges_' = st.es
       /\ next_vid' = st.nv
       /\ next_eid' = st.ne
       /\ area_' = st.area
       /\ seed_twin' = st.stw
       /\ base_' = BaseFirst(st.es, base_)
       /\ mesh_' = [mesh_ EXCEPT !.boundary_edges = st.es]
  /\ last_op' = "set_base_first"
  /\ height' = config.first_height
  /\ success' = TRUE
  /\ i_layer' = 0
  /\ pc' = "loop"
  /\ log' = log \o <<Ev("setup_facet_connectivity", RZero, TRUE),
                     Ev("init_advancing_front", RZero, TRUE),
                     Ev("remove_invalid_mesh_edges", RZero, TRUE)>>
  /\ UNCHANGED <<domain, refining, config, xy_start_, xy_end_, quad_layer, i_base,
                 n_rejected, skipped>>

\* Lengths and normals are exact for edges parallel to an axis only: a run is
\* followed into a further layer only while the whole Front is made of such edges
Rectilinear(vs, es) == \A k \in 1..Len(es) : EdgeAxisAligned(vs, es[k])

\* Smoothing a layer over edges of mixed length gives heights with growing
\* denominators: a layer is followed only if its heights are multiples of 1/d
\* for some d <= MaxDenominator
LayerInRange(ql) == \A i \in 1..NBases(ql) : HeightInRange(ql.heights[i])

\* the layer loop goes on: no break so far and i_layer < n_layers_
LoopContinues(ok, i, n_layers) == ok /\ i < n_layers

\* generate_quad_layer(height) is called; it returns false from its selection
\* phase, or a failed ASSERT of QuadLayer ends the run, or the QuadLayer stands
\* and create_quad_layer_elements is entered
LayerBegin ==
  /\ pc = "loop"
  /\ LoopContinues(success, i_layer, config.n_layers)
  /\ Rectilinear(mesh_vertices, edges_)
  /\ \E s \in {SelectLayer(World, xy_start_, xy_end_, height)} :
       /\ LayerInRange(s.ql)
       /\ IF ~s.found
          THEN /\ success' = FALSE
               /\ pc' = "loop"
               /\ log' = log \o <<Ev("generate_quad_layer", height, TRUE),
                                  Ev("layer_result", height, FALSE)>>
               /\ UNCHANGED <<mesh_vertices, edges_, next_vid, next_eid, mesh_,
                              quad_layer, i_base, skipped>>
          ELSE /\ SetWorld(s.w)
               /\ quad_layer' = s.ql
               /\ i_base' = 1
               /\ skipped' = {}
               /\ pc' = IF s.ql.ok THEN "bases" ELSE "crashed"
               /\ log' = Append(log, Ev("generate_quad_layer", height, TRUE))
               /\ success' = success
  /\ UNCHANGED <<domain, refining, base_, area_, seed_twin, last_op, config, xy_start_,
                 xy_end_, height, i_layer, n_rejected>>

\* the ways an iteration of create_quad_layer_elements ends after a commit was
\* tried and no quad was made
SkipReasons == {"t1_null", "t2_null", "no_interior_edge"}

\* create_quad_layer_elements: the iteration for base i_base
BaseStep ==
  /\ pc = "bases"
  /\ \E valid1, valid2, bridged \in BOOLEAN :
       \E r \in {CreateQuadLayerElement(World, quad_layer, i_base,
                                        valid1, valid2, bridged)} :
         /\ n_rejected + r.rej <= MaxRejects
         /\ SetWorld(r.w)
         /\ quad_layer' = r.ql
         /\ n_rejected' = n_rejected + r.rej
         /\ skipped' = IF r.why \in SkipReasons THEN skipped \cup {i_base} ELSE skipped
  /\ IF i_base + 1 > NBases(quad_layer)
     THEN pc' = "gaps" /\ i_base' = 2
     ELSE pc' = "bases" /\ i_base' = i_base + 1
  /\ UNCHANGED <<domain, refining, base_, area_, seed_twin, last_op, config, xy_start_,
                 xy_end_, height, i_layer, success, log>>

\* finish_quad_layer: the iteration for the joint before base i_base
GapStep ==
  /\ pc = "gaps"
  /\ i_base <= NBases(quad_layer)
  /\ \E valid \in BOOLEAN :
       \E r \in {FinishQuadLayerJoint(World, quad_layer, i_base, valid)} :
         /\ n_rejected + r.rej <= MaxRejects
         /\ SetWorld(r.w)
         /\ n_rejected' = n_rejected + r.rej
         /\ pc' = IF r.ok THEN "gaps" ELSE "crashed"
  /\ i_base' = i_base + 1
  /\ UNCHANGED <<domain, refining, base_, area_, seed_twin, last_op, config, xy_start_,
                 xy_end_, height, i_layer, success, quad_layer, skipped, log>>

\* generate_elements: height *= growth_rate_
NextHeightSame(h, growth_rate) == h

NextHeight(h, growth_rate) == RMul(h, growth_rate)

\* what the anchors hold after an undefined anchor search that went on
GarbageXY == V(0 - 1, 0 - 1)

\* generate_quad_layer returns r to the layer loop of generate_elements
LayerReturns(r, xy_start, xy_end) ==
  /\ xy_start_' = xy_start
  /\ xy_end_' = xy_end
  /\ success' = r
  /\ log' = Append(log, Ev("layer_result", height, r))
  /\ pc' = "loop"
  /\ IF r THEN height' = NextHeight(height, config.growth_rate) /\ i_layer' = i_layer + 1
          ELSE height' = height /\ i_layer' = i_layer

LayerCrashes ==
  /\ pc' = "crashed"
  /\ UNCHANGED <<xy_start_, xy_end_, success, log, height, i_layer>>

\* the end of generate_quad_layer: clear_waste, the search for the new anchors,
\* the return, and the rest of the loop body in generate_elements.  An undefined
\* search kills the process, or its stray reads end the loop with anything.
LayerEnd ==
  /\ pc = "gaps"
  /\ i_base > NBases(quad_layer)
  /\ \E a \in {AnchorSearch(mesh_vertices, quad_layer, 0, xy_start_, xy_end_)} :
       \/ a.kind = "true" /\ LayerReturns(TRUE, a.xy_start, a.xy_end)
       \/ a.kind = "false" /\ LayerReturns(FALSE, a.xy_start, a.xy_end)
       \/ a.kind = "undefined" /\ LayerCrashes
       \/ a.kind = "undefined" /\ LayerReturns(FALSE, xy_start_, xy_end_)
       \/ a.kind = "undefined" /\ LayerReturns(TRUE, GarbageXY, GarbageXY)
  /\ UNCHANGED <<frontVars, mesh_, config, quad_layer, i_base, n_rejected, skipped>>

\* Front::clear_edges
KeepEdges(es) == es

ClearEdges(es) == <<>>

\* generate_elements: return success
ReturnTrue(ok) == TRUE

ReturnValue(ok) == ok

\* generate_elements after the layer loop: finish_mesh_for_output,
\* front_.clear_edges(), return success
GenerateElementsEnd ==
  /\ pc = "loop"
  /\ ~LoopContinues(success, i_layer, config.n_layers)
  /\ edges_' = ClearEdges(edges_)
  /\ pc' = "returned"
  /\ log' = log \o <<Ev("finish_mesh_for_output", RZero, TRUE),
                     Ev("clear_edges", RZero, TRUE),
                     Ev("return", RZero, ReturnValue(success))>>
  /\ UNCHANGED <<domain, refining, mesh_vertices, base_, area_, seed_twin, next_vid, next_eid,
                 last_op, mesh_, config, xy_start_, xy_end_, height, i_layer,
                 success, quad_layer, i_base, n_rejected, skipped>>

DriverNext ==
  \/ GenerateElementsEmpty
  \/ GenerateElementsBegin
  \/ LayerBegin
  \/ BaseStep
  \/ GapStep
  \/ LayerEnd
  \/ GenerateElementsEnd

vars == <<frontVars, driverVars>>

SpecFront == FrontInit /\ [][FrontNext]_vars

SpecDriver == DriverInit /\ [][DriverNext]_vars

\* the call goes on while it can: nothing suspends the running function
SpecRefine == RefineInit /\ [][RefineNext]_vars /\ WF_vars(RefineNext)

(***************************************************************************)
(* Properties of the Front.                                                *)
(***************************************************************************)
FrontEdgeIds == Ids(edges_)
Rings == {NextEdgeRing(edges_, id) : id \in FrontEdgeIds}
RingSet(r) == {r.visited[k] : k \in 1..Len(r.visited)}

\* C8 as stated: after init_front, following next-edge links from any Front edge
\* visits every Front edge exactly once before it returns to the starting edge.
C8_AllEdgesOneRing ==
  last_op = "init_front" =>
    \A id \in FrontEdgeIds :
      LET r == NextEdgeRing(edges_, id)
      IN  r.back = id /\ RingSet(r) = FrontEdgeIds

\* C8 amended: after init_front, following next-edge links from any Front edge
\* returns to that edge without meeting an edge twice, and the rings so formed
\* are as many as the domain has boundaries and together hold every Front edge;
\* all Front edges lie on one ring exactly when there is one boundary.
C8_OneRingPerBoundary ==
  last_op = "init_front" =>
    /\ \A id \in FrontEdgeIds :
         LET r == NextEdgeRing(edges_, id)
         IN  /\ r.back = id
             /\ Cardinality(RingSet(r)) = Len(r.visited)
    /\ Cardinality({RingSet(r) : r \in Rings}) = Len(domain.bdry)
    /\ UNION {RingSet(r) : r \in Rings} = FrontEdgeIds
    /\ (\A r \in Rings : RingSet(r) = FrontEdgeIds) <=> Len(domain.bdry) = 1

C8_Witness ==
  /\ last_op = "init_front"
  /\ Len(domain.bdry) = 2
  /\ Len(edges_) > 8
  /\ \E r \in Rings : RingSet(r) # FrontEdgeIds

\* C9: on a non-empty Front whose cursor refers to one of its edges, size() calls
\* of set_base_next bring the cursor back to where it started, the cursor is on
\* every edge once on the way, no smaller positive number of calls brings it
\* back, and from the last edge of the list it goes to the first.
C9_BaseNextRing ==
  (last_op # "crashed" /\ Len(edges_) >= 1 /\ HasId(edges_, base_)) =>
    LET n == Len(edges_)
    IN  /\ BaseNextTimes(edges_, base_, n) = base_
        /\ {BaseNextTimes(edges_, base_, k) : k \in 1..n} = FrontEdgeIds
        /\ \A k \in 1..(n - 1) : BaseNextTimes(edges_, base_, k) # base_
        /\ BaseNext(edges_, edges_[n].id) = edges_[1].id

C9_Witness ==
  /\ last_op = "set_base_next"
  /\ Len(edges_) >= 4
  /\ base_ = edges_[1].id

\* C10 as stated: in every state the cursor operations and init_front reach, the
\* cursor is null only if the Front is empty, and refers to an edge of the Front
\* whenever there is one.
C10_NullOnlyIfEmpty ==
  last_op \in {"constructed", "init_front", "set_base_first", "set_base_next",
               "sort_edges", "base"} =>
    /\ base_ = NullId => Len(edges_) = 0
    /\ Len(edges_) >= 1 => HasId(edges_, base_)

\* C10 amended: init_front leaves the cursor as it was, so a Front that was just
\* initialised has edges and a null cursor; after set_base_first, sort_edges or
\* base(Edge&), and after set_base_next called with such a cursor, the cursor
\* refers to an edge of the Front whenever the Front has one, and is null only
\* on an empty Front.
C10_CursorSetByCursorOps ==
  /\ last_op = "init_front" => base_ = NullId /\ Len(edges_) >= 1
  /\ last_op \in {"set_base_first", "set_base_next", "sort_edges", "base"} =>
       /\ Len(edges_) >= 1 => HasId(edges_, base_)
       /\ base_ = NullId <=> Len(edges_) = 0

C10_Witness ==
  /\ last_op = "sort_edges"
  /\ Len(edges_) > 4
  /\ HasId(edges_, base_)
  /\ \E k \in 1..Len(mesh_vertices) : ~HasId(edges_, k)

\* the Front as init_front has it when it calls refine_front_edges
NewFrontState ==
  [vs |-> <<>>, es |-> <<>>, nv |-> 1, ne |-> 1, area |-> RZero,
   stw |-> [r \in SeedRefs(domain.bdry) |-> NullId]]
BeforeRefine == InitFrontLoop(domain.bdry, 1, NewFrontState)

\* the Front edge init_front_edges creates for seed k of boundary b
SeedEdgeId(b, k) == Cardinality({r \in SeedRefs(domain.bdry) : r[1] < b}) + k
SeedOf(r) == domain.bdry[r[1]][r[2]]

\* C11: after init_front the twin links are symmetric: a Front edge with a twin
\* is the twin of its twin; the twin of every seed edge flagged is_twin is the
\* Front edge created for it, which is in the Front and points back at the seed;
\* the Front edges created for the other seeds have no twin.
C11_TwinLinksSymmetric ==
  last_op = "init_front" =>
    /\ \A k \in 1..Len(edges_) :
         edges_[k].twin # NoTwin => seed_twin[edges_[k].twin] = edges_[k].id
    /\ \A r \in SeedRefs(domain.bdry) :
         IF SeedOf(r).is_twin
         THEN /\ seed_twin[r] = SeedEdgeId(r[1], r[2])
              /\ HasId(edges_, seed_twin[r])
              /\ ById(edges_, seed_twin[r]).twin = r
         ELSE /\ seed_twin[r] = NullId
              /\ ById(BeforeRefine.es, SeedEdgeId(r[1], r[2])).twin = NoTwin
              /\ HasId(edges_, SeedEdgeId(r[1], r[2])) =>
                    ById(edges_, SeedEdgeId(r[1], r[2])).twin = NoTwin

C11_Witness ==
  /\ last_op = "init_front"
  /\ Len(domain.bdry) = 2
  /\ Cardinality({k \in 1..Len(edges_) : edges_[k].twin # NoTwin}) = 2
  /\ Len(edges_) > 8

\* C12: refinement neither splits nor removes a Front edge that has a twin: each
\* edge with a twin that is in the Front when refine_front_edges is called is in
\* the Front afterwards, with the same end vertices (which have not moved), the
\* same marker and the same twin.
C12_TwinEdgesNotRefined ==
  last_op = "init_front" =>
    \A k \in 1..Len(BeforeRefine.es) :
      BeforeRefine.es[k].twin # NoTwin =>
        /\ HasId(edges_, BeforeRefine.es[k].id)
        /\ ById(edges_, BeforeRefine.es[k].id) = BeforeRefine.es[k]
        /\ EdgeVec(mesh_vertices, BeforeRefine.es[k])
             = EdgeVec(BeforeRefine.vs, BeforeRefine.es[k])
        /\ VertXY(mesh_vertices, BeforeRefine.es[k].v1)
             = VertXY(BeforeRefine.vs, BeforeRefine.es[k].v1)

\* a twin edge is kept whole next to an edge of the same length that was refined
C12_Witness ==
  /\ last_op = "init_front"
  /\ \E j, k \in 1..Len(BeforeRefine.es) :
       /\ BeforeRefine.es[j].twin # NoTwin
       /\ BeforeRefine.es[k].twin = NoTwin
       /\ EdgeLength(BeforeRefine.vs, BeforeRefine.es[j])
            = EdgeLength(BeforeRefine.vs, BeforeRefine.es[k])
       /\ HasId(edges_, BeforeRefine.es[j].id)
       /\ ~HasId(edges_, BeforeRefine.es[k].id)

\* the array create_sub_vertex_coords returns for an edge of the Front as it is
\* when refine_front_edges is called
PointsOf(e) ==
  CreateSubVertexCoords(BeforeRefine.vs, e,
                        RLt(SizeFunction(VertXY(BeforeRefine.vs, e.v1)),
                            SizeFunction(VertXY(BeforeRefine.vs, e.v2))),
                        SizeFunction(VertXY(BeforeRefine.vs, e.v1)),
                        SizeFunction(VertXY(BeforeRefine.vs, e.v2)))

Refinable(e) == e.twin = NoTwin
Refined(e) == Refinable(e) /\ Len(PointsOf(e)) >= 3
LeftWhole(e) == Refinable(e) /\ Len(PointsOf(e)) < 3

\* the number of interior points of the refined edges from index k on
RECURSIVE InteriorPoints(_)
InteriorPoints(k) ==
  IF k > Len(BeforeRefine.es) THEN 0
  ELSE (IF Refined(BeforeRefine.es[k]) THEN Len(PointsOf(BeforeRefine.es[k])) - 2 ELSE 0)
       + InteriorPoints(k + 1)

\* C13: an edge whose sub-vertex array has fewer than 3 points is left as it is:
\* it stays in the Front with the same record, the vertices and edges that exist
\* afterwards are those of before plus the ones made for the edges with 3 points
\* or more, and the refinable edges that come after it in the list are refined.
C13_ShortArrayLeavesEdge ==
  last_op = "init_front" =>
    /\ \A k \in 1..Len(BeforeRefine.es) :
         LeftWhole(BeforeRefine.es[k]) =>
           /\ HasId(edges_, BeforeRefine.es[k].id)
           /\ ById(edges_, BeforeRefine.es[k].id) = BeforeRefine.es[k]
    /\ \A k \in 1..Len(BeforeRefine.es) :
         Refined(BeforeRefine.es[k]) => ~HasId(edges_, BeforeRefine.es[k].id)
    /\ Len(mesh_vertices) = Len(BeforeRefine.vs) + InteriorPoints(1)
    /\ Len(edges_) = Len(BeforeRefine.es) + InteriorPoints(1)
    /\ next_vid = BeforeRefine.nv + InteriorPoints(1)

\* an edge left whole is followed, in the list, by an edge that was refined
C13_Witness ==
  /\ last_op = "init_front"
  /\ \E j, k \in 1..Len(BeforeRefine.es) :
       /\ j < k
       /\ LeftWhole(BeforeRefine.es[j])
       /\ Refined(BeforeRefine.es[k])
       /\ HasId(edges_, BeforeRefine.es[j].id)

\* where, in the Front after refinement, the edges that stand for edge k of the
\* Front before refinement begin
RECURSIVE ChainStart(_)
ChainStart(k) ==
  IF k = 1 THEN 1
  ELSE ChainStart(k - 1)
       + (IF Refined(BeforeRefine.es[k - 1])
          THEN Len(PointsOf(BeforeRefine.es[k - 1])) - 1 ELSE 1)

\* the Front at the end of the loop of refine_front_edges, before the removals
AfterRefineLoop == RefineLoop(BeforeRefine, GetEdgesToRefine(BeforeRefine.es), 1, <<>>)

\* the m-1 edges from position p on are a chain for e over the points pts
IsChainFor(e, pts, p) ==
  /\ p + Len(pts) - 2 <= Len(edges_)
  /\ edges_[p].v1 = e.v1
  /\ edges_[p + Len(pts) - 2].v2 = e.v2
  /\ \A i \in 0..(Len(pts) - 2) :
       /\ edges_[p + i].marker = e.marker
       /\ edges_[p + i].twin = NoTwin
       /\ ~HasId(BeforeRefine.es, edges_[p + i].id)
  /\ \A i \in 0..(Len(pts) - 3) :
       /\ edges_[p + i].v2 = edges_[p + i + 1].v1
       /\ ~HasId(BeforeRefine.vs, edges_[p + i].v2)
       /\ VertXY(mesh_vertices, edges_[p + i].v2) = pts[i + 2]
  /\ Cardinality({edges_[p + i].v2 : i \in 0..(Len(pts) - 3)}) = Len(pts) - 2

\* C14: an edge e whose array has m >= 3 points gives way, at its place in the
\* list, to m-1 new edges with e's marker that lead from e.v1 over m-2 new
\* vertices at the interior points, in order, to e.v2; every other edge keeps its
\* place, no edge occurs twice, e is still in the list right behind its chain when
\* the refinement loop ends, and no edge made by the refinement is refined.
C14_ChainReplacesEdge ==
  last_op = "init_front" =>
    /\ \A k \in 1..Len(BeforeRefine.es) :
         IF Refined(BeforeRefine.es[k])
         THEN /\ IsChainFor(BeforeRefine.es[k], PointsOf(BeforeRefine.es[k]), ChainStart(k))
              /\ HasId(AfterRefineLoop.st.es, BeforeRefine.es[k].id)
              /\ IdxOf(AfterRefineLoop.st.es, BeforeRefine.es[k].id) > 1
              /\ AfterRefineLoop.st.es[IdxOf(AfterRefineLoop.st.es, BeforeRefine.es[k].id) - 1].id
                   = edges_[ChainStart(k) + Len(PointsOf(BeforeRefine.es[k])) - 2].id
         ELSE /\ ChainStart(k) <= Len(edges_)
              /\ edges_[ChainStart(k)] = BeforeRefine.es[k]
    /\ Len(edges_) = ChainStart(Len(BeforeRefine.es) + 1) - 1
    /\ Cardinality(Ids(edges_)) = Len(edges_)
    /\ \A k \in 1..Len(AfterRefineLoop.rem) : HasId(BeforeRefine.es, AfterRefineLoop.rem[k])

\* an edge with 5 points, between edges that stay, has become 4 edges
C14_Witness ==
  /\ last_op = "init_front"
  /\ \E k \in 2..Len(BeforeRefine.es) :
       /\ Refined(BeforeRefine.es[k])
       /\ Len(PointsOf(BeforeRefine.es[k])) = 5
       /\ ~Refined(BeforeRefine.es[k - 1])
       /\ IsChainFor(BeforeRefine.es[k], PointsOf(BeforeRefine.es[k]), ChainStart(k))

\* uniform size function rho, and the number L / rho for an edge (as a rational)
Uniform == domain.rho_b = RZero /\ domain.peak = NoPeak
LengthInRho(e) == RDiv(EdgeLength(BeforeRefine.vs, e), domain.rho_a)

\* the loop of create_sub_vertex_coords for an edge under a uniform size function:
\* rho_1 < rho_2 is false, so it runs from v2 to v1
UniformLoop(e) ==
  SubVertexLoop(VertXY(BeforeRefine.vs, e.v2), VertXY(BeforeRefine.vs, e.v2),
                VNeg(EdgeTangent(BeforeRefine.vs, e)), EdgeLength(BeforeRefine.vs, e),
                RSub(ROne, RDiv(RMul(RHalf, domain.rho_a), EdgeLength(BeforeRefine.vs, e))),
                <<VertXY(BeforeRefine.vs, e.v2)>>)

PlainSquare ==
  /\ Len(domain.bdry) = 1
  /\ \A k \in 1..Len(domain.bdry[1]) : ~domain.bdry[1][k].is_twin

\* C15: under a uniform size function rho a refinable edge of length k * rho,
\* k >= 2 an integer, becomes exactly k edges of length rho each, the cropped
\* distance being zero, and an edge of length rho is left whole; a square of side
\* 4 * rho without twin edges gives a Front of 16 edges of length rho, with the
\* area of the square.
C15_UniformRefinement ==
  (last_op = "init_front" /\ Uniform) =>
    /\ \A k \in 1..Len(BeforeRefine.es) :
         (Refinable(BeforeRefine.es[k]) /\ LengthInRho(BeforeRefine.es[k])[2] = 1) =>
           IF LengthInRho(BeforeRefine.es[k])[1] >= 2
           THEN /\ Len(PointsOf(BeforeRefine.es[k])) = LengthInRho(BeforeRefine.es[k])[1] + 1
                /\ UniformLoop(BeforeRefine.es[k]).s_last = ROne
                /\ IsChainFor(BeforeRefine.es[k], PointsOf(BeforeRefine.es[k]), ChainStart(k))
                /\ \A i \in 0..(LengthInRho(BeforeRefine.es[k])[1] - 1) :
                     EdgeLength(mesh_vertices, edges_[ChainStart(k) + i]) = domain.rho_a
           ELSE /\ LeftWhole(BeforeRefine.es[k])
                /\ HasId(edges_, BeforeRefine.es[k].id)
    /\ (PlainSquare /\ LengthInRho(BeforeRefine.es[1]) = R(4)) =>
         /\ Len(edges_) = 16
         /\ \A j \in 1..Len(edges_) : EdgeLength(mesh_vertices, edges_[j]) = domain.rho_a
         /\ \A s \in 0..3 : \A j \in 1..4 :
               edges_[4 * s + j].marker = BeforeRefine.es[s + 1].marker
         /\ area_ = RMul(RMul(R(4), domain.rho_a), RMul(R(4), domain.rho_a))

\* the square of side 4 * rho after refinement
C15_Witness ==
  /\ last_op = "init_front"
  /\ Uniform
  /\ PlainSquare
  /\ LengthInRho(BeforeRefine.es[1]) = R(4)
  /\ Len(edges_) = 16

\* C18: the points made along a refined edge are strictly ascending in their
\* distance from v_a, the last point set to v_b and the cropped distance spread:
\* the ASSERT of create_sub_vertex_coords never fails, and every array that
\* init_front has worked with satisfies it.
C18_PointsAscending ==
  /\ last_op # "assert_failed"
  /\ last_op = "init_front" => RefineAssertsHold(BeforeRefine)

(***************************************************************************)
(* Properties of generate_elements.                                        *)
(***************************************************************************)
LastEvent == log[Len(log)]

\* the generate_quad_layer calls made so far, in order
LayerCalls == SelectSeq(log, LAMBDA e : e.op = "generate_quad_layer")

\* some generate_quad_layer call has returned false
SomeLayerFailed == \E k \in 1..Len(log) : log[k].op = "layer_result" /\ ~log[k].value

\* the call got past the test of the number of boundary edges
PassedCheck == \E k \in 1..Len(log) : log[k].op = "setup_facet_connectivity"

\* generate_elements has returned / the value it returned
Returned == pc = "returned"
ReturnedValue == LastEvent.value

\* generate_quad_layer has just returned to the layer loop
LayerReturned == pc = "loop" /\ log # <<>> /\ LastEvent.op = "layer_result"

RECURSIVE RPow(_, _)
RPow(g, k) == IF k = 0 THEN ROne ELSE RMul(g, RPow(g, k - 1))

\* C1: the k-th call of generate_quad_layer (k = 0, 1, ...) is made with height
\* first_height * growth_rate^k, there are at most n_layers calls, and no call
\* follows a call that returned false.
C1_LayerSchedule ==
  /\ Len(LayerCalls) <= config.n_layers
  /\ \A k \in 1..Len(LayerCalls) :
       LayerCalls[k].height = RMul(config.first_height, RPow(config.growth_rate, k - 1))
  /\ \A k \in 1..Len(log) :
       log[k].op = "layer_result" /\ ~log[k].value
         => \A j \in (k + 1)..Len(log) : log[j].op # "generate_quad_layer"

\* two layers were generated with a growing height, and the call has returned
C1_Witness ==
  /\ Returned
  /\ Len(LayerCalls) = 2
  /\ config.growth_rate = R(2)
  /\ ~SomeLayerFailed

\* C2: generate_elements on a mesh with zero boundary edges returns false at
\* once; nothing but the return happens, and the mesh, the Front and the
\* configuration are as they were.
C2_EmptyMeshReturnsFalse ==
  [][pc = "idle" /\ Len(mesh_.boundary_edges) = 0
       => /\ pc' = "returned"
          /\ log' = <<Ev("return", RZero, FALSE)>>
          /\ UNCHANGED <<frontVars, mesh_, config, xy_start_, xy_end_>>]_vars

\* the call on a mesh without boundary edges has returned
C2_Witness ==
  /\ Returned
  /\ Len(mesh_.boundary_edges) = 0
  /\ log = <<Ev("return", RZero, FALSE)>>
  /\ mesh_vertices = <<>>

EventIndices(op) == {k \in 1..Len(log) : log[k].op = op}

\* C3: when generate_elements returns after having passed the boundary-edge
\* test, finish_mesh_for_output has run exactly once and after every layer
\* call and result, and the Front holds no edge.
C3_FinishOnceFrontEmpty ==
  Returned /\ PassedCheck
    => /\ Cardinality(EventIndices("finish_mesh_for_output")) = 1
       /\ \A f \in EventIndices("finish_mesh_for_output") :
            \A k \in EventIndices("generate_quad_layer") \cup EventIndices("layer_result") :
              k < f
       /\ edges_ = <<>>

\* the call has returned after a layer failed and stopped the loop early
C3_Witness ==
  /\ Returned /\ PassedCheck
  /\ SomeLayerFailed
  /\ i_layer + 1 < config.n_layers
  /\ mesh_.quads # {}

\* the anchor search ends at its first index with both vertices set: p1[0] is on
\* the front, and v_end_in (p1[0] if closed, else p2[n-1]) is not null
FirstPairSet ==
  /\ NBases(quad_layer) > 0
  /\ quad_layer.p1[1] # NullId
  /\ OnFront(mesh_vertices, quad_layer.p1[1])
  /\ quad_layer.is_closed \/ quad_layer.p2[NBases(quad_layer)] # NullId

\* C4 as stated: a layer in which some base was skipped, because a triangle
\* commit failed or the interior edge between b2 and p1 was absent, returns
\* false.
C4_SkippedBaseFailsLayer ==
  LayerReturned /\ skipped # {} => ~LastEvent.value

\* C4, amended: a base whose commit fails or whose bridging interior edge is
\* absent is only skipped.  create_quad_layer_elements goes on to the next base
\* without reporting anything, and generate_quad_layer still returns true when
\* its anchor search ends on a pair of set vertices.
C4_SkippedBaseIsOnlySkipped ==
  [][/\ pc = "bases"
          => /\ pc' \in {"bases", "gaps"}
             /\ success' = success
             /\ log' = log
     /\ pc = "gaps" /\ i_base > NBases(quad_layer) /\ FirstPairSet
          => /\ pc' = "loop"
             /\ success'
             /\ log' = Append(log, Ev("layer_result", height, TRUE))]_vars

\* a layer with a skipped base has returned true
C4_Witness ==
  /\ LayerReturned
  /\ LastEvent.value
  /\ skipped # {}
  /\ FirstPairSet

\* the candidates of the anchor search at index i (counted from 1)
StartIn(i) == quad_layer.p1[i]
EndIn(i) ==
  IF quad_layer.is_closed THEN quad_layer.p1[i]
  ELSE quad_layer.p2[MOD(i - 2, NBases(quad_layer)) + 1]

SetAndOnFront(v) == v # NullId /\ OnFront(mesh_vertices, v)

BothOnFront(i) == SetAndOnFront(StartIn(i)) /\ SetAndOnFront(EndIn(i))

\* the anchor search of the layer that has just returned was a defined one
DefinedSearch ==
  AnchorSearch(mesh_vertices, quad_layer, 0, xy_start_, xy_end_).kind = "true"

\* C5: after generate_quad_layer has returned true, xy_start and xy_end are the
\* coordinates of proj_v1[i] and of v_end_in for the first index i at which both
\* are on the front.
C5_AnchorsBothOnFront ==
  LayerReturned /\ LastEvent.value /\ DefinedSearch
    => \E i \in 1..NBases(quad_layer) :
         /\ BothOnFront(i)
         /\ \A j \in 1..(i - 1) : ~BothOnFront(j)
         /\ xy_start_ = VertXY(mesh_vertices, StartIn(i))
         /\ xy_end_ = VertXY(mesh_vertices, EndIn(i))

\* no candidate of the anchor search is a set vertex on the front
NoCandidateOnFront ==
  \A i \in 1..NBases(quad_layer) : ~SetAndOnFront(StartIn(i)) /\ ~SetAndOnFront(EndIn(i))

\* C6: when no candidate of the anchor search is a set vertex on the front,
\* generate_quad_layer returns false and leaves xy_start and xy_end as they
\* were (and the run goes on: nothing was read out of bounds or through null).
C6_NoAnchorReturnsFalse ==
  [][pc = "gaps" /\ i_base > NBases(quad_layer) /\ NoCandidateOnFront
       => /\ pc' = "loop"
          /\ ~success'
          /\ UNCHANGED <<xy_start_, xy_end_>>]_vars

\* C7 as stated: generate_elements returns true iff no layer call returned false.
C7_TrueIffNoLayerFailed ==
  Returned => (ReturnedValue <=> ~SomeLayerFailed)

\* C7, amended: once past the boundary-edge test, generate_elements returns true
\* iff no layer call returned false; on a mesh without boundary edges it returns
\* false although no layer was attempted.
C7_ReturnValue ==
  Returned
    => IF PassedCheck THEN ReturnedValue <=> ~SomeLayerFailed
       ELSE ~ReturnedValue /\ LayerCalls = <<>>

\* the call has returned false after a layer failed
C7_Witness ==
  /\ Returned /\ PassedCheck
  /\ ~ReturnedValue
  /\ SomeLayerFailed
  /\ Len(LayerCalls) = 2
(***************************************************************************)
(* Properties of the QuadLayer that generate_quad_layer has set up.         *)
(***************************************************************************)
\* a QuadLayer stands: setup_vertex_projection has returned
LayerStands == pc \in {"bases", "gaps"}

BaseLength(i) == EdgeLength(mesh_vertices, BaseOf(quad_layer, i))

\* the projected coordinates add_quadlayer_edge gave base i
CtorHeight(i) == RMin(quad_layer.height, BaseLength(i))
CtorP1(i) ==
  VAdd(VertXY(mesh_vertices, quad_layer.b1[i]),
       VScale(CtorHeight(i), EdgeNormal(mesh_vertices, BaseOf(quad_layer, i))))
CtorP2(i) ==
  VAdd(VertXY(mesh_vertices, quad_layer.b2[i]),
       VScale(CtorHeight(i), EdgeNormal(mesh_vertices, BaseOf(quad_layer, i))))

\* the joints setup_vertex_projection adjusts: (i, j) with j = i + 1, and (n, 1)
\* for a closed layer
Joints ==
  {<<j - 1, j>> : j \in 2..NBases(quad_layer)}
    \cup (IF quad_layer.is_closed THEN {<<NBases(quad_layer), 1>>} ELSE {})

JointIsWedge(i, j) ==
  IsWedge(VertXY(mesh_vertices, quad_layer.b1[i]),
          VertXY(mesh_vertices, quad_layer.b1[j]),
          VertXY(mesh_vertices, quad_layer.b2[j]))

\* C16: after setup_vertex_projection every joint between consecutive bases, and
\* for a closed layer the joint between the last base and the first, is a wedge
\* (the test is_left(p, r, q) and alpha <= quad_layer_angle holds, and the two
\* projected coordinates are those of the construction) or is merged (the
\* projected coordinates of the two bases at the joint are equal).
C16_JointWedgeOrMerged ==
  LayerStands =>
    \A jt \in Joints :
      IF JointIsWedge(jt[1], jt[2])
      THEN /\ quad_layer.p2_xy[jt[1]] = CtorP2(jt[1])
           /\ quad_layer.p1_xy[jt[2]] = CtorP1(jt[2])
      ELSE quad_layer.p2_xy[jt[1]] = quad_layer.p1_xy[jt[2]]

\* a closed layer with merged joints at the corners, the wrap joint among them
C16_ClosedWitness ==
  /\ LayerStands
  /\ quad_layer.is_closed
  /\ NBases(quad_layer) >= 6
  /\ ~JointIsWedge(NBases(quad_layer), 1)
  /\ quad_layer.p2_xy[NBases(quad_layer)] = quad_layer.p1_xy[1]
  /\ \E jt \in Joints :
       /\ ~JointIsWedge(jt[1], jt[2])
       /\ quad_layer.p1_xy[jt[2]] # CtorP1(jt[2])
       /\ quad_layer.p2_xy[jt[1]] # CtorP2(jt[1])

\* a layer with a wedge
C16_WedgeWitness ==
  /\ LayerStands
  /\ \E jt \in Joints :
       /\ JointIsWedge(jt[1], jt[2])
       /\ quad_layer.p2_xy[jt[1]] # quad_layer.p1_xy[jt[2]]

LayerFresh == LayerStands /\ i_base = 1 /\ skipped = {}

InFront(id) == id \in Ids(edges_)

C19_WalkCollectsSpanOnce ==
  LayerFresh =>
    /\ \A n \in {Len(quad_layer.b1), Len(quad_layer.b2), Len(quad_layer.p1),
                 Len(quad_layer.p2), Len(quad_layer.p1_xy), Len(quad_layer.p2_xy),
                 Len(quad_layer.heights)} :
         n = NBases(quad_layer)
    /\ quad_layer.bases[1] = quad_layer.e_start
    /\ quad_layer.bases[NBases(quad_layer)] = quad_layer.e_end
    /\ \A i, j \in 1..NBases(quad_layer) :
         i # j => quad_layer.bases[i] # quad_layer.bases[j]
    /\ quad_layer.e_start = quad_layer.e_end => NBases(quad_layer) = 1
    /\ \A i \in 1..NBases(quad_layer) :
         InFront(quad_layer.bases[i]) =>
           /\ quad_layer.b1[i] = ById(edges_, quad_layer.bases[i]).v1
           /\ quad_layer.b2[i] = ById(edges_, quad_layer.bases[i]).v2
    /\ \A i \in 1..(NBases(quad_layer) - 1) :
         (InFront(quad_layer.bases[i]) /\ InFront(quad_layer.bases[i + 1])) =>
           GetNextEdge(edges_, ById(edges_, quad_layer.bases[i])) = quad_layer.bases[i + 1]

\* C19 without the case e_start = e_end
C19_DistinctEndsCollectedOnce ==
  (LayerFresh /\ quad_layer.e_start # quad_layer.e_end) => C19_WalkCollectsSpanOnce

\* C20: an iteration of create_quad_layer_elements adds at most the quad
\* (b1[i], b2[i], p2[i], p1[i]) of its base i, and only if the base was in the
\* Front, both triangles were committed and the interior edge (b2[i], p1[i]) was
\* found; the quad takes away that interior edge and the two triangles and
\* nothing else of the mesh.  If the base was consumed and no quad was made, the
\* triangle (b1[i], b2[i], p1[i]) stays and p1[i] stays recorded.  No base has
\* two quads.
QuadOfBase(ql, i) == <<ql.b1[i], ql.b2[i], ql.p2[i], ql.p1[i]>>

FirstTriangleOfBase(ql, i) == <<ql.b1[i], ql.b2[i], ql.p1[i]>>

SecondTriangleOfBase(ql, i) == <<ql.p1[i], ql.b2[i], ql.p2[i]>>

QuadAdded == mesh_.quads' # mesh_.quads

BaseConsumed(i) ==
  HasId(edges_, quad_layer.bases[i]) /\ ~HasId(edges_', quad_layer.bases[i])

QuadStep(i) ==
  /\ mesh_.quads' = mesh_.quads \cup {QuadOfBase(quad_layer', i)}
  /\ HasId(edges_, quad_layer.bases[i])
  /\ quad_layer'.p1[i] # NullId /\ quad_layer'.p2[i] # NullId
  /\ mesh_.triangles' = mesh_.triangles
  /\ FirstTriangleOfBase(quad_layer', i) \notin mesh_.triangles'
  /\ SecondTriangleOfBase(quad_layer', i) \notin mesh_.triangles'
  /\ mesh_.interior_edges \subseteq mesh_.interior_edges'
  /\ {quad_layer.b2[i], quad_layer'.p1[i]} \notin mesh_.interior_edges'

SkipStep(i) ==
  BaseConsumed(i) =>
    /\ quad_layer'.p1[i] # NullId
    /\ FirstTriangleOfBase(quad_layer', i) \in mesh_.triangles'

C20_QuadFromBothTriangles ==
  [][pc = "bases" =>
       /\ IF QuadAdded THEN QuadStep(i_base) ELSE SkipStep(i_base)
       /\ \A q \in mesh_.quads' \ mesh_.quads : \A o \in mesh_.quads :
            <<q[1], q[2]>> # <<o[1], o[2]>>
       /\ mesh_.quads \subseteq mesh_.quads']_vars

\* a layer with a quad over one base and, over another base that the loop
\* skipped, the first triangle alone
C20_Witness ==
  /\ LayerStands
  /\ \E i \in skipped, j \in 1..NBases(quad_layer) :
       /\ i # j
       /\ quad_layer.p1[i] # NullId
       /\ FirstTriangleOfBase(quad_layer, i) \in mesh_.triangles
       /\ \A q \in mesh_.quads : <<q[1], q[2]>> # <<quad_layer.b1[i], quad_layer.b2[i]>>
       /\ QuadOfBase(quad_layer, j) \in mesh_.quads

(***************************************************************************)
(* Properties of the endpoint handling of open layers (place_start_vertex,  *)
(* place_end_vertex), stated over the step that calls generate_quad_layer.  *)
(***************************************************************************)
EdgeTriple(e) == <<e.v1, e.v2, e.marker>>

Triples(es) == [k \in 1..Len(es) |-> EdgeTriple(es[k])]

\* the Front edges the step has split: they are gone, and nothing else removes
\* a Front edge while the layer is set up
SplitByStep == {k \in 1..Len(edges_) : ~HasId(edges_', edges_[k].id)}

\* the halves of the split edge e in the new Front: from e.v1 to the split
\* vertex, and from the split vertex to e.v2
FirstHalf(e) ==
  CHOOSE x \in {edges_'[k] : k \in 1..Len(edges_')} :
    ~HasId(edges_, x.id) /\ x.v1 = e.v1 /\ ~HasId(mesh_vertices, x.v2)

SecondHalf(e) ==
  CHOOSE x \in {edges_'[k] : k \in 1..Len(edges_')} :
    ~HasId(edges_, x.id) /\ x.v2 = e.v2 /\ x.v1 = FirstHalf(e).v2

IsMirrorOfSplit(b) ==
  \E k \in SplitByStep : <<b.v1, b.v2>> = <<edges_[k].v1, edges_[k].v2>>

SplitOf(b) ==
  edges_[CHOOSE k \in SplitByStep : <<b.v1, b.v2>> = <<edges_[k].v1, edges_[k].v2>>]

\* boundary_edges with every mirror entry of a split edge replaced, where it
\* stands, by the two halves with the marker of the split edge
RECURSIVE HalvesInPlace(_, _)
HalvesInPlace(bdry, k) ==
  IF k > Len(bdry) THEN <<>>
  ELSE (IF IsMirrorOfSplit(bdry[k])
        THEN <<<<FirstHalf(SplitOf(bdry[k])).v1, FirstHalf(SplitOf(bdry[k])).v2,
                 SplitOf(bdry[k]).marker>>,
               <<SecondHalf(SplitOf(bdry[k])).v1, SecondHalf(SplitOf(bdry[k])).v2,
                 SplitOf(bdry[k]).marker>>>>
        ELSE <<EdgeTriple(bdry[k])>>)
       \o HalvesInPlace(bdry, k + 1)

\* the split vertex of e is the projected vertex of the end of the layer that e
\* touches, with its coordinates
SplitVertexProjected(e) ==
  /\ e.v2 = quad_layer'.b1[1] =>
       /\ quad_layer'.p1[1] = FirstHalf(e).v2
       /\ quad_layer'.p1_xy[1] = VertXY(mesh_vertices', FirstHalf(e).v2)
  /\ e.v1 = quad_layer'.b2[NBases(quad_layer')] =>
       /\ quad_layer'.p2[NBases(quad_layer')] = FirstHalf(e).v2
       /\ quad_layer'.p2_xy[NBases(quad_layer')] = VertXY(mesh_vertices', FirstHalf(e).v2)

LayerSetUp == pc = "loop" /\ pc' = "bases"

LastIsMirrorOfSplit ==
  /\ Len(mesh_.boundary_edges) > 0
  /\ IsMirrorOfSplit(mesh_.boundary_edges[Len(mesh_.boundary_edges)])

\* the last two entries of s moved to the front
LastTwoFirst(s) == SubSeq(s, Len(s) - 1, Len(s)) \o SubSeq(s, 1, Len(s) - 2)

\* C21 with the list position the code gives: the halves stand before the entry
\* that get_next_edge gives for the mirror entry.  On the one ring of
\* boundary_edges that is the former position, except for the last entry of the
\* list, whose halves are put in front of the first entry.
C21_HalvesBeforeNextEntry ==
  [][LayerSetUp =>
       /\ Triples(mesh_.boundary_edges') =
            IF LastIsMirrorOfSplit
            THEN LastTwoFirst(HalvesInPlace(mesh_.boundary_edges, 1))
            ELSE HalvesInPlace(mesh_.boundary_edges, 1)
       /\ \A k \in SplitByStep : SplitVertexProjected(edges_[k])]_vars

\* a layer set up with both ends split: boundary_edges has two entries more
\* than the Front had edges before
C21_BothEndsSplit ==
  /\ LayerFresh
  /\ ~quad_layer.is_closed
  /\ quad_layer.p1[1] # NullId /\ quad_layer.p2[NBases(quad_layer)] # NullId
  /\ VertXY(mesh_vertices, quad_layer.p1[1]) = quad_layer.p1_xy[1]
  /\ Len(mesh_.boundary_edges) = Len(edges_)
  /\ \E k \in 1..Len(edges_) : edges_[k].v2 = quad_layer.p1[1] /\ edges_[k].id >= next_eid - 4
  /\ \E k \in 1..Len(edges_) :
       edges_[k].v1 = quad_layer.p2[NBases(quad_layer)] /\ edges_[k].id >= next_eid - 2

(***************************************************************************)
(* Properties of the selection phase of generate_quad_layer.                *)
(***************************************************************************)
\* the vertices and edges the selection phase finds for the current anchors
VStart == NearestV1(mesh_vertices, edges_, xy_start_)

VEnd == NearestV1(mesh_vertices, edges_, xy_end_)

NoNearestVertex == VStart = NullId \/ VEnd = NullId

NoAdjacentEdge ==
  /\ ~NoNearestVertex
  /\ GetEdgeAt(edges_, VStart, 1) = NullId \/ GetEdgeAt(edges_, VEnd, 2) = NullId

NotTraversable ==
  /\ ~NoNearestVertex /\ ~NoAdjacentEdge
  /\ ~IsTraversable(edges_, GetEdgeAt(edges_, VStart, 1), GetEdgeAt(edges_, VEnd, 2))

SelectionFails == NoNearestVertex \/ NoAdjacentEdge \/ NotTraversable

LayerCalled == pc = "loop" /\ LoopContinues(success, i_layer, config.n_layers)

\* C22: a call of generate_quad_layer whose selection phase fails returns false
\* at once: no QuadLayer is made, the Front, the mesh and the anchors stay as
\* they are, and the call does not get as far as its elements, its gaps or its
\* end, where clear_waste is.
C22_FailedSelectionChangesNothing ==
  [][(LayerCalled /\ SelectionFails) =>
       /\ pc' = "loop" /\ success' = FALSE
       /\ log' = log \o <<Ev("generate_quad_layer", height, TRUE),
                          Ev("layer_result", height, FALSE)>>
       /\ quad_layer' = quad_layer
       /\ edges_' = edges_ /\ base_' = base_ /\ next_eid' = next_eid
       /\ mesh_vertices' = mesh_vertices /\ next_vid' = next_vid
       /\ mesh_' = mesh_
       /\ xy_start_' = xy_start_ /\ xy_end_' = xy_end_
       /\ height' = height /\ i_layer' = i_layer]_vars

\* after a first layer, a call has returned false because the span between the
\* edges at the anchors is not traversable; the Front still has its edges
C22_Witness ==
  /\ pc = "loop" /\ ~success /\ i_layer >= 1
  /\ NotTraversable /\ Len(edges_) > 0
  /\ Len(log) >= 1 /\ log[Len(log)] = Ev("layer_result", height, FALSE)


(***************************************************************************)
(* Properties of the loop of create_sub_vertex_coords (SpecRefine)         *)
(***************************************************************************)

\* the loop was left by its break
LoopExited == refining.pc \in {"cropping", "returned", "assert_failed"}

\* the size function is positive at every representable point of the edge
PositiveOnEdge ==
  refining.pc = "loop" =>
    \A k \in 0..(MaxSide * Grid) :
      RLt(RZero, SizeFunction(VAdd(refining.xy_a, VScale(RNorm(k, Grid), refining.tang))))

C23_SizeFunctionPositive == PositiveOnEdge

\* a pass that leaves xy where it was: the step dxy_c is positive and below the
\* spacing of the representable values, and s is not beyond s_end
C23_StuckPass ==
  /\ refining.pc = "loop"
  /\ Len(refining.xy_new) >= 3
  /\ refining.xy_new[Len(refining.xy_new)] = refining.xy_new[Len(refining.xy_new) - 1]
  /\ RLt(RZero, SizeFunction(refining.xy))
  /\ RLe(refining.s_last, refining.s_end)

\* a stuck pass is followed by stuck passes only: the pass depends on xy alone,
\* so the loop goes on for as long as push_back succeeds, whatever MaxPoints is,
\* and its only end is the std::bad_alloc that ends the program
C23_StuckStaysStuck ==
  [][C23_StuckPass =>
       /\ refining'.pc \in {"loop", "bad_alloc"}
       /\ refining'.xy = refining.xy
       /\ refining'.s_last = refining.s_last]_vars

\* with a size function that is nowhere below the spacing 1/Grid (here: without
\* a sink) the loop is left
C23_LoopTerminatesAboveSpacing == (refining.pc = "loop" /\ ~HasSink) ~> LoopExited

====
